---- MODULE Spec2Model ----
(***************************************************************************)
(* Model of the smart DevOps framework (scripts/): the framework detector, *)
(* the configuration merger, the three stage runners and the orchestrator  *)
(* that sequences them.                                                    *)
(*                                                                         *)
(* Encoding of Python values.  A configuration is a nested dict; a node is *)
(* one of                                                                  *)
(*   [d |-> f]   a dict, f a function from keys (strings) to nodes         *)
(*   [s |-> x]   a str that the code only copies or compares (atomic)      *)
(*   [c |-> q]   a str that the code edits or concatenates: q is the       *)
(*               sequence of its characters                                *)
(*   [b |-> x]   a bool,  [l |-> q] a list,  [o |-> x] any other object,   *)
(*   [none |-> TRUE]  None                                                 *)
(* Floats: a weighted score is kept times 10 (the weights are 1.0, 0.9,    *)
(* 0.8, 0.9) and a confidence in units of 1/500 (score / 50 = 10*score /   *)
(* 500), so 0.1 is 50, 0.3 is 150 and 1.0 is 500.                          *)
(***************************************************************************)
EXTENDS Integers, Sequences, FiniteSets, TLC

\* ------------------------------------------------------------- values ---

EmptyMap == [k \in {} |-> TRUE]

D(f) == [d |-> f]
S(x) == [s |-> x]
C(q) == [c |-> q]
B(x) == [b |-> x]
L(q) == [l |-> q]
O(x) == [o |-> x]
None == [none |-> TRUE]

IsDict(v) == "d" \in DOMAIN v
IsNone(v) == "none" \in DOMAIN v

\* Python truthiness of a node: None, '', {}, [] and False are falsy.
Truthy(v) ==
    CASE "d" \in DOMAIN v -> DOMAIN v.d # {}
      [] "s" \in DOMAIN v -> v.s # ""
      [] "c" \in DOMAIN v -> v.c # <<>>
      [] "b" \in DOMAIN v -> v.b
      [] "l" \in DOMAIN v -> v.l # <<>>
      [] "o" \in DOMAIN v -> TRUE
      [] OTHER -> FALSE

\* key in dict
Has(v, k) == k \in DOMAIN v.d

\* dict.get(k, default)
Get(v, k, default) == IF k \in DOMAIN v.d THEN v.d[k] ELSE default

\* dict[k] = x, on a copy
Put(v, k, x) == D([kk \in (DOMAIN v.d) \cup {k} |-> IF kk = k THEN x ELSE v.d[kk]])

\* The outcome of a call: a returned value or a raised exception.
Return(x) == [raised |-> FALSE, val |-> x, exc |-> ""]
Raise(e) == [raised |-> TRUE, val |-> None, exc |-> e]

Min(a, b) == IF a <= b THEN a ELSE b

\* ---------------------------------------------------- str operations ---

\* str.lower() on the characters the model uses
LowerChar(ch) == IF ch = "A" THEN "a" ELSE IF ch = "B" THEN "b" ELSE ch

Lower(q) == [i \in 1..Len(q) |-> LowerChar(q[i])]

\* str.replace(old, new) for a one-character old and a one-character new
Replace(q, old, new) == [i \in 1..Len(q) |-> IF q[i] = old THEN new ELSE q[i]]

\* str.replace(old, '') for a one-character old
Remove(q, old) == SelectSeq(q, LAMBDA ch : ch # old)

\* ------------------------------------------------------- repositories ---
(* A repository on disk: whether the path exists, the files present below  *)
(* it (other than package.json), the state of package.json and the         *)
(* directory's name.  package.json is absent, unparseable ("bad"), a JSON  *)
(* document that is a non-empty array ("list"), or a JSON object ("dict")  *)
(* with the top-level keys `keys`.                                         *)

NoPkg == [kind |-> "absent", keys |-> {}, name |-> <<>>, deps |-> {},
          devDeps |-> {}, scripts |-> {}]

BadPkg == [NoPkg EXCEPT !.kind = "bad"]

ListPkg == [NoPkg EXCEPT !.kind = "list"]

Pkg(name, hasName, deps, devDeps, scripts) ==
    [kind |-> "dict",
     keys |-> (IF hasName THEN {"name"} ELSE {})
              \cup (IF deps # {} THEN {"dependencies"} ELSE {})
              \cup (IF devDeps # {} THEN {"devDependencies"} ELSE {})
              \cup (IF scripts # {} THEN {"scripts"} ELSE {}),
     name |-> name, deps |-> deps, devDeps |-> devDeps, scripts |-> scripts]

\* Path(repo_path).exists()
RepoExists(repo) == repo.exists

\* A file check that does not see package.json
FileListed(repo, f) == repo.exists /\ f \in repo.files

\* (Path(repo_path) / f).exists()
FileExists(repo, f) ==
    /\ repo.exists
    /\ IF f = "package.json" THEN repo.pkg.kind # "absent" ELSE f \in repo.files

\* ------------------------------------------------- framework_detector ---

ProfileOrder == <<"angular", "react", "vue", "nextjs">>

detection_patterns ==
    [angular |->
        [files |-> <<"angular.json", "src/main.ts", "src/app/app.module.ts">>,
         package_dependencies |-> <<"@angular/core", "@angular/cli", "@angular/common">>,
         package_dev_dependencies |-> <<"@angular/cli", "@angular-devkit/build-angular">>,
         config_files |-> <<"angular.json", "tsconfig.json", "tsconfig.app.json">>,
         build_commands |-> <<"build:prod", "build", "ng build">>,
         weight10 |-> 10],
     react |->
        [files |-> <<"src/App.js", "src/App.tsx", "public/index.html", "src/index.js">>,
         package_dependencies |-> <<"react", "react-dom">>,
         package_dev_dependencies |-> <<"react-scripts", "create-react-app">>,
         config_files |-> <<"package.json">>,
         build_commands |-> <<"build", "react-scripts build">>,
         weight10 |-> 9],
     vue |->
        [files |-> <<"src/App.vue", "vue.config.js", "src/main.js">>,
         package_dependencies |-> <<"vue">>,
         package_dev_dependencies |-> <<"@vue/cli-service", "@vue/cli">>,
         config_files |-> <<"vue.config.js">>,
         build_commands |-> <<"build", "vue-cli-service build">>,
         weight10 |-> 8],
     nextjs |->
        [files |-> <<"next.config.js", "pages/_app.js", "pages/index.js">>,
         package_dependencies |-> <<"next", "react">>,
         package_dev_dependencies |-> <<"next">>,
         config_files |-> <<"next.config.js">>,
         build_commands |-> <<"build", "next build">>,
         weight10 |-> 9]]

\* max_possible, the normalisation ceiling of the confidence
max_possible == 50

\* The confidence 0.1 of the generic fallback, in units of 1/500
GenericConfidence == 50

\* json.load of package.json: None when the file is absent or unparseable,
\* else the parsed document.
_load_package_json(repo) ==
    IF repo.pkg.kind \in {"absent", "bad"} THEN None ELSE O(repo.pkg)

\* `if package_json_data:` -- None and the empty object {} are falsy
PkgTruthy(data) ==
    /\ ~IsNone(data)
    /\ (data.o.kind = "dict" => data.o.keys # {})

\* The evidence one profile collects (the `details` of the scoring loop).
ProfileDetails(repo, framework) ==
    LET p == detection_patterns[framework]
        data == _load_package_json(repo)
        has == PkgTruthy(data)
        files_found == SelectSeq(p.files, LAMBDA f : FileExists(repo, f))
        deps_found == IF has
                      THEN SelectSeq(p.package_dependencies, LAMBDA x : x \in data.o.deps)
                      ELSE <<>>
        dev_found == IF has
                     THEN SelectSeq(p.package_dev_dependencies, LAMBDA x : x \in data.o.devDeps)
                     ELSE <<>>
        config_found == SelectSeq(p.config_files, LAMBDA f : FileExists(repo, f))
        build_found == IF has
                       THEN SelectSeq(p.build_commands, LAMBDA x : x \in data.o.scripts)
                       ELSE <<>>
    IN [files_found |-> files_found,
        dependencies_found |-> deps_found,
        dev_dependencies_found |-> dev_found,
        config_files_found |-> config_found,
        build_commands_available |-> build_found,
        confidence_breakdown |->
            [files |-> 3 * Len(files_found),
             dependencies |-> 5 * Len(deps_found),
             dev_dependencies |-> 3 * Len(dev_found),
             config_files |-> 2 * Len(config_found),
             build_commands |-> 1 * Len(build_found)]]

\* score: the raw score of one profile
RawScore(repo, framework) ==
    LET bd == ProfileDetails(repo, framework).confidence_breakdown
    IN bd.files + bd.dependencies + bd.dev_dependencies + bd.config_files
       + bd.build_commands

\* A score to which the weight of the profile is not applied
UnweightedScore10(repo, framework) == 10 * RawScore(repo, framework)

\* weighted_score = score * patterns['weight'], times 10
WeightedScore10(repo, framework) ==
    RawScore(repo, framework) * detection_patterns[framework].weight10

\* A scores dict that keeps the profiles that scored nothing
AllProfiles(repo) == ProfileOrder

\* scores: the profiles with a weighted score > 0, in insertion order
ScoredProfiles(repo) ==
    SelectSeq(ProfileOrder, LAMBDA fw : WeightedScore10(repo, fw) > 0)

\* A max that returns the last of the keys with the greatest value
LastMaxKey(repo, keys) ==
    LET best == CHOOSE i \in 1..Len(keys) :
                   /\ \A j \in 1..Len(keys) :
                         WeightedScore10(repo, keys[j]) <= WeightedScore10(repo, keys[i])
                   /\ \A j \in (i+1)..Len(keys) :
                         WeightedScore10(repo, keys[j]) < WeightedScore10(repo, keys[i])
    IN keys[best]

\* max(scores, key=scores.get): the first key, in insertion order, whose
\* value no other key's value exceeds
MaxKey(repo, keys) ==
    LET best == CHOOSE i \in 1..Len(keys) :
                   /\ \A j \in 1..Len(keys) :
                         WeightedScore10(repo, keys[j]) <= WeightedScore10(repo, keys[i])
                   /\ \A j \in 1..(i-1) :
                         WeightedScore10(repo, keys[j]) < WeightedScore10(repo, keys[i])
    IN keys[best]

\* A detect_framework without the check of the path (lines 52-54): nothing
\* matches in a directory that is not there, and the result is the generic one
UncheckedDetect(repo) ==
    Return([framework |-> "generic", confidence |-> GenericConfidence,
            details |-> EmptyMap])

\* detect_framework(repo_path) -> (framework, confidence, details)
detect_framework(repo) ==
    IF ~RepoExists(repo)
    THEN Return([framework |-> "unknown", confidence |-> 0, details |-> EmptyMap])
    ELSE IF repo.pkg.kind = "list"
    THEN Raise("AttributeError")   \* package_json_data.get on a list
    ELSE LET scores == ScoredProfiles(repo)
         IN IF scores # <<>>
            THEN LET detected == MaxKey(repo, scores)
                 IN Return([framework |-> detected,
                            confidence |-> Min(WeightedScore10(repo, detected),
                                               10 * max_possible),
                            details |-> ProfileDetails(repo, detected)])
            ELSE Return([framework |-> "generic", confidence |-> GenericConfidence,
                         details |-> EmptyMap])

\* The install command of detect_build_strategy.
\* An install command that is `npm ci` whether or not there is a lock file
AlwaysCi(repo) == "npm ci --prefer-offline --no-audit --no-fund"

\* detect_build_strategy, lines 167-169: the install command
InstallCommand(repo) ==
    IF FileExists(repo, "package-lock.json")
    THEN "npm ci --prefer-offline --no-audit --no-fund"
    ELSE "npm install --prefer-offline --no-audit --no-fund"

\* detect_build_strategy(repo_path, framework) -> dict
detect_build_strategy(repo, framework) ==
    LET data == _load_package_json(repo)
    IN IF ~PkgTruthy(data)
       THEN Return(D([command |-> S("echo No package.json found"),
                      type |-> S("generic"),
                      install_command |-> S("echo No install needed")]))
       ELSE IF data.o.kind = "list"
       THEN Raise("AttributeError")
       ELSE
       LET scripts == data.o.scripts
           preferred == IF framework \in DOMAIN detection_patterns
                        THEN detection_patterns[framework].build_commands
                        ELSE <<"build">>
           avail == SelectSeq(preferred, LAMBDA x : x \in scripts)
       IN IF avail # <<>>
          THEN Return(D([command |-> S("npm run " \o Head(avail)),
                         type |-> S(framework),
                         script_content |-> S("script:" \o Head(avail)),
                         install_command |-> S(InstallCommand(repo)),
                         available_scripts |-> O(scripts)]))
          ELSE IF "build" \in scripts
          THEN Return(D([command |-> S("npm run build"),
                         type |-> S("generic"),
                         script_content |-> S("script:build"),
                         install_command |-> S(InstallCommand(repo))]))
          ELSE Return(D([command |-> S(InstallCommand(repo)),
                         type |-> S("install-only"),
                         install_command |-> S(InstallCommand(repo))]))

\* possible_dirs of detect_output_directory; "dist/<app_name>" stands for
\* the directory named after the application
OutputCandidates(framework) ==
    IF framework = "angular" THEN <<"dist/<app_name>", "dist", "dist/<app_name>-app">>
    ELSE IF framework = "react" THEN <<"build", "dist">>
    ELSE IF framework = "vue" THEN <<"dist", "build">>
    ELSE <<"dist", "build", "public">>

\* full_path.exists() and any(full_path.iterdir()): the directory is there
\* and holds an entry, of any kind
ExistsNonEmpty(outdirs, dir) ==
    dir \in DOMAIN outdirs /\ outdirs[dir] # "empty"

\* detect_output_directory(repo_path, framework, app_name) -> str
detect_output_directory(framework, outdirs) ==
    LET found == SelectSeq(OutputCandidates(framework),
                           LAMBDA dir : ExistsNonEmpty(outdirs, dir))
    IN IF found = <<>> THEN "dist" ELSE Head(found)

\* ------------------------------------------------------ config_merger ---

RECURSIVE Join(_)
\* The characters of a str, concatenated
Join(q) == IF q = <<>> THEN "" ELSE Head(q) \o Join(Tail(q))

\* str(x) of a str node, as an f-string formats it
Str(v) == IF "c" \in DOMAIN v THEN Join(v.c) ELSE v.s

\* os.getenv(name): None when the variable is unset
GetEnv(env, name) == IF name \in DOMAIN env THEN env[name] ELSE None

\* os.getenv(name, default)
GetEnvD(env, name, default) == IF name \in DOMAIN env THEN env[name] ELSE default

\* A merge that does not descend: result = base.copy(); result.update(override)
ShallowMerge(base, override) ==
    D([k \in (DOMAIN base.d) \cup (DOMAIN override.d) |->
         IF k \in DOMAIN override.d THEN override.d[k] ELSE base.d[k]])

RECURSIVE _deep_merge(_, _)
\* _deep_merge(base, override): a shallow copy of base, each key of override
\* merged recursively when both sides hold a dict and assigned otherwise
_deep_merge(base, override) ==
    D([k \in (DOMAIN base.d) \cup (DOMAIN override.d) |->
         IF k \notin DOMAIN override.d THEN base.d[k]
         ELSE IF k \in DOMAIN base.d /\ IsDict(base.d[k]) /\ IsDict(override.d[k])
              THEN _deep_merge(base.d[k], override.d[k])
              ELSE override.d[k]])

RECURSIVE MergeHighFirst(_)
\* A fold that applies the layers in the opposite order, the highest first
MergeHighFirst(ls) ==
    IF ls = <<>> THEN D(EmptyMap)
    ELSE _deep_merge(MergeHighFirst(Tail(ls)), Head(ls))

RECURSIVE MergeLayers(_)
\* merge_config, lines 56-63: `merged = self._deep_merge(merged, layer)` for
\* each layer in turn, the lowest first, starting from {}
MergeLayers(ls) ==
    IF ls = <<>> THEN D(EmptyMap)
    ELSE _deep_merge(MergeLayers(SubSeq(ls, 1, Len(ls) - 1)), ls[Len(ls)])

\* value[:8]
Short8(q) == SubSeq(q, 1, Min(8, Len(q)))

\* _add_environment_overrides(config)
_add_environment_overrides(config, env) ==
    IF Truthy(GetEnv(env, "BUILD_BUILDNUMBER"))
    THEN Put(config, "build_info",
             D([build_number |-> GetEnv(env, "BUILD_BUILDNUMBER"),
                build_id |-> GetEnv(env, "BUILD_BUILDID"),
                source_version |-> C(Short8(GetEnvD(env, "BUILD_SOURCEVERSION", C(<<>>)).c)),
                source_branch |-> GetEnvD(env, "BUILD_SOURCEBRANCHNAME", S("unknown")),
                pipeline_name |-> GetEnvD(env, "BUILD_DEFINITIONNAME", S("unknown")),
                build_reason |-> GetEnvD(env, "BUILD_REASON", S("manual"))]))
    ELSE config

UnknownApp == <<"u", "n", "k", "n", "o", "w", "n", "-", "a", "p", "p">>

\* The sections _add_auto_detected_values writes into in place
AutoSections == {"app", "source", "docker", "deployment"}

\* The branch-to-environment rule of _add_auto_detected_values
BranchEnvironment(branch) ==
    IF branch \in {S("main"), S("master")} THEN S("production")
    ELSE IF branch = S("develop") THEN S("staging")
    ELSE S("development")

\* The app section after lines 110-123
AutoApp(config, original_config, env, detected_framework) ==
    LET app0 == Get(config, "app", D(EmptyMap))
        orig == Get(Get(original_config, "app", D(EmptyMap)), "name", None)
        app_name == IF Truthy(orig) THEN orig
                    ELSE GetEnvD(env, "BUILD_REPOSITORY_NAME", C(UnknownApp))
        app1 == IF ~Has(app0, "name")
                THEN Put(app0, "name", C(Replace(Lower(app_name.c), "_", "-")))
                ELSE app0
    IN Put(Put(app1, "framework", S(detected_framework)),
           "detected_framework", S(detected_framework))

\* The source section after lines 125-134
AutoSource(config, env) ==
    LET src0 == Get(config, "source", D(EmptyMap))
        src1 == Put(src0, "repo_url",
                    GetEnvD(env, "BUILD_REPOSITORY_URI", Get(src0, "repo_url", S(""))))
        src2 == Put(src1, "branch",
                    GetEnvD(env, "BUILD_SOURCEBRANCHNAME", Get(src1, "branch", S("main"))))
    IN Put(src2, "commit_sha", GetEnvD(env, "BUILD_SOURCEVERSION", C(<<>>)))

\* A docker section that keeps the tag and the image strings a layer supplied
KeptDocker(config, app, env, global_config) ==
    LET dk0 == Get(config, "docker", D(EmptyMap))
        dk1 == IF ~Has(dk0, "repository")
               THEN Put(dk0, "repository",
                        GetEnvD(env, "DOCKER_REPOSITORY",
                                Get(Get(global_config, "docker", D(EmptyMap)),
                                    "organization", S("myorg"))))
               ELSE dk0
        dk2 == IF ~Has(dk1, "image") THEN Put(dk1, "image", app.d["name"]) ELSE dk1
        tag == "v" \o Str(GetEnvD(env, "BUILD_BUILDNUMBER", S("local")))
        repo_image == Str(dk2.d["repository"]) \o "/" \o Str(dk2.d["image"])
        dk3 == IF Has(dk2, "tag") THEN dk2 ELSE Put(dk2, "tag", S(tag))
        dk4 == IF Has(dk3, "full_image") THEN dk3
               ELSE Put(dk3, "full_image", S(repo_image \o ":" \o tag))
    IN IF Has(dk4, "latest_image") THEN dk4
       ELSE Put(dk4, "latest_image", S(repo_image \o ":latest"))

\* The docker section after lines 136-152
AutoDocker(config, app, env, global_config) ==
    LET dk0 == Get(config, "docker", D(EmptyMap))
        dk1 == IF ~Has(dk0, "repository")
               THEN Put(dk0, "repository",
                        GetEnvD(env, "DOCKER_REPOSITORY",
                                Get(Get(global_config, "docker", D(EmptyMap)),
                                    "organization", S("myorg"))))
               ELSE dk0
        dk2 == IF ~Has(dk1, "image") THEN Put(dk1, "image", app.d["name"]) ELSE dk1
        build_number == GetEnvD(env, "BUILD_BUILDNUMBER", S("local"))
        tag == "v" \o Str(build_number)
        repo_image == Str(dk2.d["repository"]) \o "/" \o Str(dk2.d["image"])
    IN Put(Put(Put(dk2, "tag", S(tag)),
               "full_image", S(repo_image \o ":" \o tag)),
           "latest_image", S(repo_image \o ":latest"))

\* The deployment section after lines 154-169
AutoDeployment(config, app, source) ==
    LET dp0 == Get(config, "deployment", D(EmptyMap))
        dp1 == IF ~Has(dp0, "namespace") THEN Put(dp0, "namespace", app.d["name"]) ELSE dp0
    IN IF ~Has(dp1, "environment")
       THEN Put(dp1, "environment", BranchEnvironment(Get(source, "branch", S("unknown"))))
       ELSE dp1

\* An exception raised after part of the work was done: val is what the
\* call had written by then
RaiseAfter(e, x) == [raised |-> TRUE, val |-> x, exc |-> e]

\* A section that is present but is no dict
BadSection(config, k) == Has(config, k) /\ ~IsDict(config.d[k])

\* Lines 154-169, on a config whose app and source are written
WriteDeployment(config) ==
    IF BadSection(config, "deployment") THEN RaiseAfter("TypeError", config)
    ELSE Return(Put(config, "deployment",
                    AutoDeployment(config, config.d["app"], config.d["source"])))

\* Lines 136-169, on a config whose app and source are written
WriteDocker(config, env, global_config) ==
    IF BadSection(config, "docker") THEN RaiseAfter("TypeError", config)
    ELSE WriteDeployment(Put(config, "docker",
                             AutoDocker(config, config.d["app"], env, global_config)))

\* Lines 125-169, on a config whose app is written
WriteSource(config, env, global_config) ==
    IF BadSection(config, "source") THEN RaiseAfter("AttributeError", config)
    ELSE WriteDocker(Put(config, "source", AutoSource(config, env)), env, global_config)

\* _add_auto_detected_values(config, original_config, detected_framework):
\* the sections are written in the order app, source, docker, deployment; a
\* section that is present but is no dict makes the write raise, and the
\* sections written before it stay written.
_add_auto_detected_values(config, original_config, env, detected_framework, global_config) ==
    IF BadSection(config, "app") THEN RaiseAfter("TypeError", config)
    ELSE WriteSource(Put(config, "app",
                         AutoApp(config, original_config, env, detected_framework)),
                     env, global_config)

(* _deep_merge copies only the dict it is given: a section that one layer  *)
(* alone supplies is the layer's own object in the merged config, and the  *)
(* in-place writes of _add_auto_detected_values land in that layer.        *)
(* SectionOwner names the layer whose object the merged config holds under *)
(* key k: "global", "framework", "app", or "fresh" for a dict built by the *)
(* merge itself.                                                           *)
SectionOwner(k, g, f, a) ==
    LET o1 == IF Has(g, k) THEN "global" ELSE "none"
        v1 == IF Has(g, k) THEN g.d[k] ELSE None
        o2 == IF ~Has(f, k) THEN o1
              ELSE IF o1 # "none" /\ IsDict(v1) /\ IsDict(f.d[k]) THEN "fresh"
              ELSE "framework"
        v2 == IF Has(f, k) THEN f.d[k] ELSE v1
        o3 == IF ~Has(a, k) THEN o2
              ELSE IF o2 # "none" /\ IsDict(v2) /\ IsDict(a.d[k]) THEN "fresh"
              ELSE "app"
    IN IF o3 = "none" THEN "fresh" ELSE o3

\* A layer after the in-place writes: the sections it owns hold the final values.
Written(layer, name, final, g, f, a) ==
    D([k \in DOMAIN layer.d |->
         IF k \in AutoSections /\ SectionOwner(k, g, f, a) = name
         THEN final.d[k] ELSE layer.d[k]])

\* framework_defaults.get(detected_framework, {})
DefaultsFor(framework_defaults, detected_framework) ==
    IF detected_framework \in DOMAIN framework_defaults
    THEN framework_defaults[detected_framework] ELSE D(EmptyMap)

\* What merge_config leaves: auto is the outcome of
\* _add_auto_detected_values, and the layers hold its in-place writes.
Merged(auto, global_config, framework_defaults, fd, app_config, detected_framework) ==
    [raised |-> auto.raised,
     exc |-> auto.exc,
     val |-> [config |-> auto.val,
              global_config |->
                  Written(global_config, "global", auto.val, global_config, fd,
                          app_config),
              framework_defaults |->
                  [fw \in DOMAIN framework_defaults |->
                      IF fw = detected_framework
                      THEN Written(fd, "framework", auto.val, global_config, fd,
                                   app_config)
                      ELSE framework_defaults[fw]]]]

\* merge_config(app_config, detected_framework): the merged config, and the
\* merger's global_config and framework_defaults as the call leaves them,
\* whether it returns or raises.  A global.yaml that is empty loads as None,
\* and iterating it raises.
merge_config(global_config, framework_defaults, app_config, env, detected_framework) ==
    IF ~IsDict(global_config)
    THEN RaiseAfter("AttributeError",
                    [config |-> None, global_config |-> global_config,
                     framework_defaults |-> framework_defaults])
    ELSE Merged(_add_auto_detected_values(
                    _add_environment_overrides(
                        _deep_merge(
                            _deep_merge(_deep_merge(D(EmptyMap), global_config),
                                        DefaultsFor(framework_defaults, detected_framework)),
                            app_config),
                        env),
                    app_config, env, detected_framework, global_config),
                global_config, framework_defaults,
                DefaultsFor(framework_defaults, detected_framework),
                app_config, detected_framework)

\* Digits of a decimal string
DigitVal == [ch \in {"0", "1", "2", "3", "4", "5", "6", "7", "8", "9"} |->
               CASE ch = "0" -> 0 [] ch = "1" -> 1 [] ch = "2" -> 2 [] ch = "3" -> 3
                 [] ch = "4" -> 4 [] ch = "5" -> 5 [] ch = "6" -> 6 [] ch = "7" -> 7
                 [] ch = "8" -> 8 [] ch = "9" -> 9]

IsNumber(q) == q # <<>> /\ \A i \in 1..Len(q) : q[i] \in DOMAIN DigitVal

RECURSIVE ParseInt(_)
\* int(s) of a string of decimal digits
ParseInt(q) ==
    IF q = <<>> THEN 0
    ELSE 10 * ParseInt(SubSeq(q, 1, Len(q) - 1)) + DigitVal[q[Len(q)]]

\* str.endswith(suffix)
EndsWith(q, suffix) ==
    /\ Len(q) >= Len(suffix)
    /\ SubSeq(q, Len(q) - Len(suffix) + 1, Len(q)) = suffix

\* s[:-n]
DropLast(q, n) == SubSeq(q, 1, Len(q) - n)

\* str.upper() on the characters of a quantity
UpperChar(ch) ==
    CASE ch = "k" -> "K" [] ch = "m" -> "M" [] ch = "g" -> "G" [] ch = "i" -> "I"
      [] OTHER -> ch

Upper(q) == [i \in 1..Len(q) |-> UpperChar(q[i])]

\* _parse_cpu(cpu_str): millicores; a string float() rejects raises ValueError
\* (whole numbers of cores only: the model has no fractions)
_parse_cpu(q) ==
    IF EndsWith(q, <<"m">>)
    THEN IF IsNumber(DropLast(q, 1)) THEN Return(ParseInt(DropLast(q, 1)))
         ELSE Raise("ValueError")
    ELSE IF IsNumber(q) THEN Return(ParseInt(q) * 1000) ELSE Raise("ValueError")

\* _parse_memory(memory_str): bytes
_parse_memory(q0) ==
    LET q == Upper(q0)
        num == IF EndsWith(q, <<"K", "I">>) \/ EndsWith(q, <<"M", "I">>)
                  \/ EndsWith(q, <<"G", "I">>)
               THEN DropLast(q, 2) ELSE q
        unit == IF EndsWith(q, <<"K", "I">>) THEN 1024
                ELSE IF EndsWith(q, <<"M", "I">>) THEN 1024 * 1024
                ELSE IF EndsWith(q, <<"G", "I">>) THEN 1024 * 1024 * 1024
                ELSE 1
    IN IF IsNumber(num) THEN Return(ParseInt(num) * unit) ELSE Raise("ValueError")

\* The `errors` of validate_config (lines 178-183)
ValidationErrors(config) ==
    (IF ~Truthy(Get(Get(config, "app", D(EmptyMap)), "name", None))
     THEN <<"app.name is required">> ELSE <<>>)
    \o (IF ~Truthy(Get(Get(config, "docker", D(EmptyMap)), "repository", None))
        THEN <<"docker.repository is required">> ELSE <<>>)

\* Whether validate_config enters the comparison of requests and limits
\* (lines 186-188)
HasLimitsAndRequests(config) ==
    /\ Has(config, "deployment")
    /\ Has(config.d["deployment"], "resources")
    /\ Has(config.d["deployment"].d["resources"], "limits")
    /\ Has(config.d["deployment"].d["resources"], "requests")

\* validate_config(config): line 193 reads the name `both`, which nothing
\* binds, so the comparison raises NameError before any quantity is parsed;
\* a resources entry that is no dict raises TypeError at the `in` test.
validate_config(config) ==
    IF /\ Has(config, "deployment")
       /\ Has(config.d["deployment"], "resources")
       /\ ~IsDict(config.d["deployment"].d["resources"])
    THEN Raise("TypeError")
    ELSE IF HasLimitsAndRequests(config)
    THEN Raise("NameError")
    ELSE LET errors == ValidationErrors(config)
         IN Return(Put(config, "validation",
                       D([errors |-> L(errors),
                          warnings |-> L(<<>>),
                          valid |-> B(Len(errors) = 0)])))

\* ------------------------------------------------------------- stages ---
(* run_command returns {success, ...} and never raises: a non-zero exit    *)
(* and a timeout both give success = False.  A stage's commands are inputs *)
(* of the stage: io.<name> is the success of the command <name>.  A stage  *)
(* yields its outcome (a returned result or a raised exception), the       *)
(* commands it ran, in order, as [cmd, success], and the config object as  *)
(* the stage leaves it.                                                    *)

Cmd(name, ok) == [cmd |-> name, success |-> ok]

StageYield(out, cmds, config) == [out |-> out, cmds |-> cmds, config |-> config]

\* config['app']['name'] and config['app']['framework'] can be read
HasAppKeys(config) ==
    /\ IsDict(config)
    /\ Has(config, "app")
    /\ IsDict(config.d["app"])
    /\ Has(config.d["app"], "name")
    /\ Has(config.d["app"], "framework")

\* The command _install_dependencies runs
_install_dependencies(build_strategy, repo) ==
    LET given == Get(build_strategy, "install_command",
                     S("npm ci --prefer-offline --no-audit --no-fund")).s
    IN IF given = "npm ci --prefer-offline --no-audit --no-fund"
          /\ ~FileExists(repo, "package-lock.json")
       THEN "npm install --prefer-offline --no-audit --no-fund"
       ELSE given

\* The command _execute_build runs
_execute_build(build_strategy) ==
    LET build_command == Get(build_strategy, "command", S("npm run build")).s
        build_type == Get(build_strategy, "type", S("generic")).s
    IN IF build_type = "angular" /\ build_command = "npm run ng build"
       THEN build_command \o " --configuration production"
       ELSE build_command

\* possible_dirs of _verify_build_artifacts; "dist/<app_name>" stands for
\* the directory named after the application
BuildCandidates(build_strategy, framework) ==
    IF framework = "angular" THEN <<"dist/<app_name>", "dist", "dist/<app_name>-app">>
    ELSE IF framework = "react" THEN <<"build", "dist">>
    ELSE IF framework = "vue" THEN <<"dist", "build">>
    ELSE <<Get(build_strategy, "output_dir", S("dist")).s, "dist", "build", "public">>

\* A directory of the build output: absent, empty, holding files none of
\* which is .html/.js/.css ("other"), or holding web artifacts ("web").
\* _contains_web_artifacts(directory)
_contains_web_artifacts(outdirs, dir) ==
    dir \in DOMAIN outdirs /\ outdirs[dir] = "web"

\* _verify_build_artifacts: the first candidate that exists and holds web
\* artifacts, or an exception when there is none
_verify_build_artifacts(build_strategy, framework, outdirs) ==
    LET found == SelectSeq(BuildCandidates(build_strategy, framework),
                           LAMBDA dir : _contains_web_artifacts(outdirs, dir))
    IN IF found = <<>> THEN Raise("No build artifacts found")
       ELSE Return(Head(found))

\* smart_build.run(config, repo_path)
build_run(config, repo, io) ==
    IF ~RepoExists(repo)
    THEN StageYield(Raise("Repository path does not exist"), <<>>, config)
    ELSE IF ~HasAppKeys(config)
    THEN StageYield(Raise("KeyError"), <<>>, config)
    ELSE
    LET build_strategy == Get(config, "build_strategy", D(EmptyMap))
        framework == Str(config.d["app"].d["framework"])
        install == Cmd(_install_dependencies(build_strategy, repo), io.install)
        build == Cmd(_execute_build(build_strategy), io.build)
        artifacts == _verify_build_artifacts(build_strategy, framework, io.outdirs)
    IN IF ~install.success
       THEN StageYield(Raise("Dependency installation failed"), <<install>>, config)
       ELSE IF ~build.success
       THEN StageYield(Raise("Build failed"), <<install, build>>, config)
       ELSE IF artifacts.raised
       THEN StageYield(artifacts, <<install, build>>, config)
       ELSE StageYield(Return(D([success |-> B(TRUE),
                                 artifacts |-> D([output_dir |-> S(artifacts.val)])])),
                       <<install, build>>,
                       Put(config, "build_info",
                           D([output_dir |-> S(artifacts.val)])))

\* A stage that leaves the process where its os.chdir(repo_path) put it
NoRestore(original_dir, current) == current

\* finally: os.chdir(original_dir), on every way out of the try block
RestoreDir(original_dir, current) == original_dir

\* os.getcwd() after smart_build.run: the checks of lines 19-24 raise before
\* os.chdir(repo_path); past them the try block runs in the repository and
\* the finally clause runs whether it returns or raises
BuildCwd(config, repo, original_dir) ==
    IF RepoExists(repo) /\ HasAppKeys(config)
    THEN RestoreDir(original_dir, "repo_path")
    ELSE original_dir

\* os.getcwd() after smart_docker.run: the reads of lines 18-20 and an
\* os.chdir(repo_path) that fails raise before the try block
DockerCwd(config, repo, original_dir) ==
    IF HasAppKeys(config) /\ Has(config, "docker") /\ RepoExists(repo)
    THEN RestoreDir(original_dir, "repo_path")
    ELSE original_dir

\* os.environ after _execute_build: a react build sets NODE_ENV and CI
BuildEnviron(config, repo, io, env) ==
    IF /\ RepoExists(repo) /\ HasAppKeys(config) /\ io.install
       /\ Get(Get(config, "build_strategy", D(EmptyMap)), "type", S("generic")) = S("react")
    THEN [k \in (DOMAIN env) \cup {"NODE_ENV", "CI"} |->
            IF k = "NODE_ENV" THEN S("production")
            ELSE IF k = "CI" THEN S("true") ELSE env[k]]
    ELSE env

\* smart_docker.run(config, repo_path)
docker_run(config, repo, io) ==
    IF ~(HasAppKeys(config) /\ Has(config, "docker") /\ IsDict(config.d["docker"]))
    THEN StageYield(Raise("KeyError"), <<>>, config)
    ELSE IF ~RepoExists(repo)
    THEN StageYield(Raise("FileNotFoundError"), <<>>, config)   \* os.chdir
    ELSE IF ~Has(config.d["docker"], "full_image")
    THEN StageYield(Raise("KeyError"), <<>>, config)
    ELSE
    LET build == Cmd("docker build", io.docker_build)
        inspect == Cmd("docker inspect", io.inspect)
        tag == Cmd("docker tag", io.tag)
        push == Cmd("docker push versioned", io.push)
        latest == Cmd("docker push latest", io.push_latest)
    IN IF ~build.success
       THEN StageYield(Raise("Docker build failed"), <<build>>, config)
       ELSE IF ~Has(config.d["docker"], "latest_image")
       THEN StageYield(Raise("KeyError"), <<build, inspect>>, config)
       ELSE IF ~push.success
       THEN StageYield(Raise("Failed to push"), <<build, inspect, tag, push>>, config)
       ELSE StageYield(Return(D([success |-> B(TRUE),
                                 push_results |->
                                     D([versioned |-> B(push.success),
                                        latest |-> B(latest.success)])])),
                       <<build, inspect, tag, push, latest>>, config)

\* config['app']['name'], config['deployment'] and
\* deployment_config['environment'] can be read (lines 17-21, before the try)
HasDeployKeys(config) ==
    /\ HasAppKeys(config)
    /\ Has(config, "deployment")
    /\ IsDict(config.d["deployment"])
    /\ Has(config.d["deployment"], "environment")

DeployFailure(msg) == Return(D([success |-> B(FALSE), error |-> S(msg)]))

\* smart_deploy.run(config): io.template says whether the manifest template
\* exists; without it the inline manifest reads docker, full_image and
\* replicas, and the health check reads replicas in either case.
deploy_run(config, io) ==
    IF ~HasDeployKeys(config)
    THEN StageYield(Raise("KeyError"), <<>>, config)
    ELSE
    LET deployment == config.d["deployment"]
        inline_ok == /\ Has(config, "docker") /\ IsDict(config.d["docker"])
                     /\ Has(config.d["docker"], "full_image")
                     /\ Has(deployment, "replicas")
        apply == Cmd("kubectl apply", io.apply)
        rollout == Cmd("kubectl rollout status", io.rollout)
        debug == IF rollout.success THEN <<>>
                 ELSE <<Cmd("kubectl describe", io.describe),
                        Cmd("kubectl get pods", io.describe)>>
        status == Cmd("kubectl get deployment", io.status)
        service == Cmd("kubectl get service", io.status)
    IN IF ~io.template /\ ~inline_ok
       THEN StageYield(DeployFailure("KeyError"), <<>>, config)
       ELSE IF ~apply.success
       THEN StageYield(DeployFailure("Failed to apply manifests"), <<apply>>, config)
       ELSE IF ~Has(deployment, "replicas")
       THEN StageYield(DeployFailure("KeyError"),
                       <<apply, rollout>> \o debug \o <<status>>, config)
       ELSE StageYield(Return(D([success |-> B(TRUE),
                                 rollout_result |-> B(rollout.success)])),
                       <<apply, rollout>> \o debug \o <<status, service>>, config)

\* ------------------------------------------------- smart_orchestrator ---

\* name.lower().replace('_', '-').replace('@', '').replace('/', '-')
CleanPackageName(q) == Replace(Remove(Replace(Lower(q), "_", "-"), "@"), "/", "-")

\* _extract_app_name(repo_path): the name of a parseable package.json that
\* is an object with a name, else BUILD_REPOSITORY_NAME, else the directory
_extract_app_name(repo, env) ==
    IF repo.pkg.kind = "dict" /\ "name" \in repo.pkg.keys
    THEN C(CleanPackageName(repo.pkg.name))
    ELSE IF Truthy(GetEnv(env, "BUILD_REPOSITORY_NAME"))
    THEN C(Replace(Lower(GetEnv(env, "BUILD_REPOSITORY_NAME").c), "_", "-"))
    ELSE C(Replace(Lower(repo.name), "_", "-"))

\* A call that was not made
NotCalled == [raised |-> FALSE, val |-> None, exc |-> "not called"]

\* An entry point without its try/except: the outcome passes as it is
NoBoundary(out) == out

\* `except Exception as e: return {'success': False, 'error': str(e), ...}`
\* of analyze_only and process_repository
ErrorBoundary(out) ==
    IF out.raised
    THEN Return(D([success |-> B(FALSE), error |-> S(out.exc),
                   duration |-> O("elapsed")]))
    ELSE out

\* base_config of analyze_only (lines 57-69)
BaseConfig(repo, env, detected, build_strategy) ==
    D([app |-> D([name |-> _extract_app_name(repo, env),
                  framework |-> S(detected.framework)]),
       detection |-> D([framework |-> S(detected.framework),
                        confidence |-> O(detected.confidence),
                        details |-> O(detected.details)]),
       build_strategy |-> build_strategy])

\* The result of a successful analyze_only (lines 82-88); its 'config' is
\* the config object, and the duration is left out
AnalysisSuccess(detected) ==
    Return(D([success |-> B(TRUE),
              framework |-> S(detected.framework),
              confidence |-> O(detected.confidence)]))

\* result['success'] of a returned result
Succeeded(out) == ~out.raised /\ Get(out.val, "success", B(FALSE)) = B(TRUE)

\* process_repository, lines 107-117: the inputs are checked, inside the try
ProcessInputs(config, repo) ==
    IF ~RepoExists(repo) THEN Raise("Repository path does not exist")
    ELSE IF ~IsDict(config) THEN Raise("AttributeError")
    ELSE IF ~Truthy(Get(config, "success", B(TRUE)))
    THEN Raise("Invalid configuration provided")
    ELSE IF ~HasAppKeys(config) THEN Raise("KeyError")
    ELSE Return(None)

\* A process_repository that goes on whatever the Build stage reported
IgnoreBuild(out) == Return(None)

\* process_repository, lines 121-124: what follows the Build stage
AfterBuild(out) ==
    IF out.raised THEN out
    ELSE IF ~Truthy(Get(out.val, "success", None))
    THEN Raise("Build failed: " \o Str(Get(out.val, "error", S("Unknown build error"))))
    ELSE Return(None)

\* A process_repository that goes on whatever the Container stage reported
IgnoreDocker(out) == Return(None)

\* process_repository, lines 130-133: what follows the Container stage
AfterDocker(out) ==
    IF out.raised THEN out
    ELSE IF ~Truthy(Get(out.val, "success", None))
    THEN Raise("Docker process failed: "
               \o Str(Get(out.val, "error", S("Unknown Docker error"))))
    ELSE Return(None)

\* process_repository, lines 142-149: the result of a completed run
ProcessSuccess(config, build_out, docker_out) ==
    Return(D([success |-> B(TRUE),
              build_result |-> build_out.val,
              docker_result |-> docker_out.val,
              app_name |-> config.d["app"].d["name"],
              framework |-> config.d["app"].d["framework"]]))

\* full_pipeline, lines 184-189: the result when no step failed; the
\* analysis and processing results are the objects of those steps
PipelineSuccess(analysis, processing, deployment) ==
    Return(D([success |-> B(TRUE),
              analysis |-> analysis.val,
              processing |-> processing.val,
              deployment |-> deployment]))

\* ----------------------------------------------------------- the runs ---
(* One run of one entry point on a repository, an environment and the      *)
(* configuration documents of the framework root: detect_framework,        *)
(* analyze_only, full_pipeline, or process_repository.  The latter runs on *)
(* the config an analysis of the repository saved (run_analysis.py, then   *)
(* run_build.py, which stops when the analysis failed), or on a malformed  *)
(* config.                                                                 *)

VARIABLES
    entry,               \* the entry point called
    repo,                \* the repository at repo_path
    env,                 \* os.environ
    deploy,              \* full_pipeline's deploy argument
    global_config,       \* SmartConfigMerger.global_config
    framework_defaults,  \* SmartConfigMerger.framework_defaults
    pc,                  \* where the run is
    config,              \* the config object the steps share
    detection,           \* outcome of detect_framework
    validate_in,         \* the config validate_config was given
    validate_out,        \* outcome of validate_config
    raised_in,           \* the callee of analyze_only that raised, or ""
    analysis_result,     \* outcome of analyze_only
    build_outcome,       \* outcome of smart_build.run
    docker_outcome,      \* outcome of smart_docker.run
    deploy_outcome,      \* outcome of smart_deploy.run
    process_result,      \* outcome of process_repository
    returned,            \* what the entry point returned
    escaped,             \* an exception reached the caller of the entry point
    calls,               \* the stages invoked, in order
    commands,            \* the commands run, in order
    build_strategy,      \* outcome of detect_build_strategy
    again,               \* outcome of a second detect_framework on the same repository
    given,               \* the layers handed to the merger, as they were at the call
    layers,              \* the same layer objects, as they are now
    deep_merged,         \* outcome of _deep_merge(layers[1], layers[2])
    folded,              \* the layers merged one after the other, lowest first
    remerged,            \* a second merge_config on the same merger: its environment and outcome
    cwd,                 \* os.getcwd()
    outdirs,             \* the output directories of the repository after a build
    verified,            \* outcome of _verify_build_artifacts
    output_directory     \* outcome of detect_output_directory

vars == <<entry, repo, env, deploy, global_config, framework_defaults, pc, config,
          detection, validate_in, validate_out, raised_in, analysis_result,
          build_outcome, docker_outcome, deploy_outcome, process_result,
          returned, escaped, calls, commands, build_strategy, again, given, layers,
          deep_merged, folded, remerged, cwd, outdirs, verified, output_directory>>

\* What a direct call of the detector, of the merger or of the build's
\* helpers computes
direct == <<again, given, layers, deep_merged, folded, remerged, outdirs, verified,
            output_directory>>

\* ------------------------------------------------------------ inputs ---

Repo(files, pkg, name) == [exists |-> TRUE, files |-> files, pkg |-> pkg, name |-> name]

AngularRepo ==
    Repo({"angular.json", "src/main.ts", "package-lock.json"},
         Pkg(<<"A", "_", "b">>, TRUE, {"@angular/core"}, {}, {"build:prod"}),
         <<"a", "b">>)

ReactRepo ==
    Repo({"src/App.js"},
         Pkg(<<"@", "a", "/", "B">>, TRUE, {"react", "react-dom"}, {"react-scripts"},
             {"build"}),
         <<"a">>)

EmptyRepo == Repo({}, NoPkg, <<"A", "_", "b">>)

\* package.json with "name": ""
NamelessRepo == Repo({"src/App.vue"}, Pkg(<<>>, TRUE, {"vue"}, {}, {"build"}), <<"a">>)

\* package.json with "name": "@"
AtRepo == Repo({}, Pkg(<<"@">>, TRUE, {}, {}, {}), <<"a">>)

\* the path "/" has the empty name
RootRepo == Repo({}, NoPkg, <<>>)

UnparseableRepo == Repo({}, BadPkg, <<"b">>)

ArrayRepo == Repo({}, ListPkg, <<"b">>)

MissingRepo == [Repo({}, NoPkg, <<"a">>) EXCEPT !.exists = FALSE]

Repos == {AngularRepo, ReactRepo, EmptyRepo, NamelessRepo, AtRepo, RootRepo,
          UnparseableRepo, ArrayRepo, MissingRepo}

Resources(limits, requests) == D([limits |-> limits, requests |-> requests])

\* requests above the limits
OverLimits ==
    Resources(D([cpu |-> C(<<"2", "0", "0", "m">>),
                 memory |-> C(<<"1", "2", "8", "M", "i">>)]),
              D([cpu |-> C(<<"1">>), memory |-> C(<<"1", "G", "i">>)]))

\* requests within the limits
WithinLimits ==
    Resources(D([cpu |-> C(<<"1">>)]), D([cpu |-> C(<<"5", "0", "0", "m">>)]))

Globals ==
    { D(EmptyMap),
      D([docker |-> D([organization |-> S("acme")]),
         deployment |-> D([replicas |-> O(2)])]),
      D([deployment |-> D([replicas |-> O(1), resources |-> OverLimits])]),
      D([deployment |-> D([replicas |-> O(1), resources |-> WithinLimits])]),
      \* limits alone
      D([deployment |-> D([resources |-> D([limits |-> D([cpu |-> C(<<"1">>)])])])]),
      D([docker |-> D([repository |-> S("")])]),
      D([deployment |-> S("none")]),
      \* an empty global.yaml
      None }

Defaults ==
    { EmptyMap,
      [angular |-> D([deployment |-> D([replicas |-> O(3)]),
                      docker |-> D([port |-> O(80)])])] }

Envs ==
    { EmptyMap,
      [BUILD_BUILDNUMBER |-> S("42"),
       BUILD_SOURCEBRANCHNAME |-> S("develop"),
       BUILD_SOURCEVERSION |-> C(<<"a", "b", "c", "d", "e", "f", "0", "1", "2">>),
       BUILD_REPOSITORY_NAME |-> C(<<"A", "_", "b">>)],
      [DOCKER_REPOSITORY |-> S("")] }

Entries == {"detect_framework", "analyze_only", "process_repository", "full_pipeline"}

\* Configs no analysis produced
Malformed == {D(EmptyMap), D([success |-> B(FALSE)]), None}

OutDirs ==
    { EmptyMap,
      "dist" :> "web",
      "build" :> "web",
      "dist/<app_name>" :> "web",
      "dist" :> "empty",
      ("dist" :> "other") @@ ("public" :> "web") }

BuildIO == [install : BOOLEAN, build : BOOLEAN, outdirs : OutDirs]

DockerIO == [docker_build : BOOLEAN, inspect : BOOLEAN, tag : BOOLEAN,
             push : BOOLEAN, push_latest : BOOLEAN]

DeployIO == [template : BOOLEAN, apply : BOOLEAN, rollout : BOOLEAN,
             describe : BOOLEAN, status : BOOLEAN]

Init ==
    /\ entry \in Entries
    /\ repo \in Repos
    /\ env \in Envs
    /\ deploy \in BOOLEAN
    /\ global_config \in Globals
    /\ framework_defaults \in Defaults
    /\ \/ pc = "start" /\ config = None
       \/ entry = "process_repository" /\ pc = "process" /\ config \in Malformed
    /\ detection = NotCalled
    /\ validate_in = None
    /\ validate_out = NotCalled
    /\ raised_in = ""
    /\ analysis_result = NotCalled
    /\ build_outcome = NotCalled
    /\ docker_outcome = NotCalled
    /\ deploy_outcome = NotCalled
    /\ process_result = NotCalled
    /\ returned = NotCalled
    /\ escaped = FALSE
    /\ calls = <<>>
    /\ commands = <<>>
    /\ build_strategy = NotCalled
    /\ again = NotCalled
    /\ given = <<>>
    /\ layers = <<>>
    /\ deep_merged = NotCalled
    /\ folded = NotCalled
    /\ remerged = NotCalled
    /\ cwd = "original_dir"
    /\ outdirs = EmptyMap
    /\ verified = NotCalled
    /\ output_directory = NotCalled

\* ----------------------------------------------------------- actions ---

\* validation.valid of a config: "valid", "invalid", or "unvalidated" when
\* the config has no validation section
Validity(cfg) ==
    IF /\ IsDict(cfg) /\ Has(cfg, "validation")
       /\ IsDict(cfg.d["validation"]) /\ Has(cfg.d["validation"], "valid")
    THEN IF cfg.d["validation"].d["valid"] = B(TRUE) THEN "valid" ELSE "invalid"
    ELSE "unvalidated"

Call(stage, cfg) == [stage |-> stage, validity |-> Validity(cfg)]

Ran(stage, cmds) ==
    [i \in 1..Len(cmds) |-> [stage |-> stage, cmd |-> cmds[i].cmd,
                             success |-> cmds[i].success]]

\* A full_pipeline that never returns early
NeverShortCircuit(out) == FALSE

\* full_pipeline, lines 168 and 175: `if not result['success']: return result`
ShortCircuit(out) == ~Succeeded(out)

\* A direct call of detect_framework
DetectFramework ==
    /\ pc = "start"
    /\ entry = "detect_framework"
    /\ detection' = detect_framework(repo)
    /\ returned' = detection'
    /\ escaped' = detection'.raised
    /\ pc' = "done"
    /\ UNCHANGED <<entry, repo, env, deploy, global_config, framework_defaults, config,
                   validate_in, validate_out, raised_in, analysis_result,
                   build_outcome, docker_outcome, deploy_outcome, process_result,
                   calls, commands>>
    /\ UNCHANGED <<build_strategy, direct, cwd>>

\* The return of analyze_only, through its error boundary, and what its
\* caller does with it: a direct call returns it; full_pipeline (lines
\* 167-171) returns a failure as it is and goes on otherwise; run_build.py
\* calls process_repository on the saved config unless the analysis failed.
FinishAnalysis(out, callee) ==
    LET result == ErrorBoundary(out)
    IN /\ analysis_result' = result
       /\ raised_in' = IF out.raised THEN callee ELSE ""
       /\ IF result.raised
          THEN /\ escaped' = TRUE
               /\ returned' = result
               /\ pc' = "done"
          ELSE IF entry = "analyze_only"
          THEN /\ escaped' = FALSE
               /\ returned' = result
               /\ pc' = "done"
          ELSE IF entry = "full_pipeline" /\ ShortCircuit(result)
          THEN /\ escaped' = FALSE
               /\ returned' = result
               /\ pc' = "done"
          ELSE IF entry = "process_repository" /\ ~Succeeded(result)
          THEN /\ pc' = "done"
               /\ UNCHANGED <<returned, escaped>>
          ELSE /\ pc' = "process"
               /\ UNCHANGED <<returned, escaped>>

\* analyze_only, lines 40-49: the path is checked and the framework detected
AnalyzeDetect ==
    /\ pc = "start"
    /\ entry \in {"analyze_only", "full_pipeline", "process_repository"}
    /\ IF ~RepoExists(repo)
       THEN /\ FinishAnalysis(Raise("Repository path does not exist"), "analyze_only")
            /\ UNCHANGED detection
       ELSE /\ detection' = detect_framework(repo)
            /\ IF detection'.raised
               THEN FinishAnalysis(detection', "detect_framework")
               ELSE /\ pc' = "strategy"
                    /\ UNCHANGED <<analysis_result, raised_in, returned, escaped>>
    /\ UNCHANGED <<entry, repo, env, deploy, global_config, framework_defaults, config,
                   validate_in, validate_out, build_outcome, docker_outcome,
                   deploy_outcome, process_result, calls, commands>>
    /\ UNCHANGED <<build_strategy, direct, cwd>>

\* analyze_only, lines 54-69: the build strategy and the base configuration
AnalyzeStrategy ==
    /\ pc = "strategy"
    /\ build_strategy' = detect_build_strategy(repo, detection.val.framework)
    /\ IF build_strategy'.raised
       THEN /\ FinishAnalysis(build_strategy', "detect_build_strategy")
            /\ UNCHANGED config
       ELSE /\ config' = BaseConfig(repo, env, detection.val, build_strategy'.val)
            /\ pc' = "merge"
            /\ UNCHANGED <<analysis_result, raised_in, returned, escaped>>
    /\ UNCHANGED <<entry, repo, env, deploy, global_config, framework_defaults,
                   detection, validate_in, validate_out, build_outcome, docker_outcome,
                   deploy_outcome, process_result, calls, commands>>
    /\ UNCHANGED <<direct, cwd>>

\* analyze_only, line 72: merge_config on the base configuration
AnalyzeMerge ==
    /\ pc = "merge"
    /\ LET merged == merge_config(global_config, framework_defaults, config, env,
                                  detection.val.framework)
       IN /\ config' = merged.val.config
          /\ global_config' = merged.val.global_config
          /\ framework_defaults' = merged.val.framework_defaults
          /\ IF merged.raised
             THEN FinishAnalysis(Raise(merged.exc), "merge_config")
             ELSE /\ pc' = "validate"
                  /\ UNCHANGED <<analysis_result, raised_in, returned, escaped>>
    /\ UNCHANGED <<entry, repo, env, deploy, detection, validate_in, validate_out,
                   build_outcome, docker_outcome, deploy_outcome, process_result,
                   calls, commands>>
    /\ UNCHANGED <<build_strategy, direct, cwd>>

\* analyze_only, lines 75-96: validate_config and the return
AnalyzeValidate ==
    /\ pc = "validate"
    /\ validate_in' = config
    /\ validate_out' = validate_config(config)
    /\ IF validate_out'.raised
       THEN /\ FinishAnalysis(validate_out', "validate_config")
            /\ UNCHANGED config
       ELSE /\ config' = validate_out'.val
            /\ FinishAnalysis(AnalysisSuccess(detection.val), "")
    /\ UNCHANGED <<entry, repo, env, deploy, global_config, framework_defaults,
                   detection, build_outcome, docker_outcome, deploy_outcome,
                   process_result, calls, commands>>
    /\ UNCHANGED <<build_strategy, direct, cwd>>

\* The return of process_repository and what its caller does with it: a
\* direct call returns it; full_pipeline (lines 174-189) returns a failure
\* as it is, goes on to the Deploy stage when deploy is set, and returns
\* success otherwise.
FinishProcess(out) ==
    LET result == ErrorBoundary(out)
    IN /\ process_result' = result
       /\ IF result.raised
          THEN /\ escaped' = TRUE
               /\ returned' = result
               /\ pc' = "done"
          ELSE IF entry = "process_repository" \/ ShortCircuit(result)
          THEN /\ escaped' = FALSE
               /\ returned' = result
               /\ pc' = "done"
          ELSE IF deploy
          THEN /\ pc' = "deploy"
               /\ UNCHANGED <<returned, escaped>>
          ELSE /\ escaped' = FALSE
               /\ returned' = PipelineSuccess(analysis_result, result, None)
               /\ pc' = "done"

\* process_repository, lines 106-117
ProcessStart ==
    /\ pc = "process"
    /\ LET checked == ProcessInputs(config, repo)
       IN IF checked.raised
          THEN FinishProcess(checked)
          ELSE /\ pc' = "build"
               /\ UNCHANGED <<process_result, returned, escaped>>
    /\ UNCHANGED <<entry, repo, env, deploy, global_config, framework_defaults, config,
                   detection, validate_in, validate_out, raised_in, analysis_result,
                   build_outcome, docker_outcome, deploy_outcome, calls, commands>>
    /\ UNCHANGED <<build_strategy, direct, cwd>>

\* process_repository, lines 119-126: the Build stage
BuildStep ==
    /\ pc = "build"
    /\ \E io \in BuildIO :
          LET y == build_run(config, repo, io)
              after == AfterBuild(y.out)
          IN /\ build_outcome' = y.out
             /\ config' = y.config
             /\ env' = BuildEnviron(config, repo, io, env)
             /\ cwd' = BuildCwd(config, repo, cwd)
             /\ calls' = Append(calls, Call("build", config))
             /\ commands' = commands \o Ran("build", y.cmds)
             /\ IF after.raised
                THEN FinishProcess(after)
                ELSE /\ pc' = "docker"
                     /\ UNCHANGED <<process_result, returned, escaped>>
    /\ UNCHANGED <<entry, repo, deploy, global_config, framework_defaults,
                   detection, validate_in, validate_out, raised_in, analysis_result,
                   docker_outcome, deploy_outcome>>
    /\ UNCHANGED <<build_strategy, direct>>

\* process_repository, lines 128-149: the Container stage and the return
DockerStep ==
    /\ pc = "docker"
    /\ \E io \in DockerIO :
          LET y == docker_run(config, repo, io)
              after == AfterDocker(y.out)
          IN /\ docker_outcome' = y.out
             /\ cwd' = DockerCwd(config, repo, cwd)
             /\ calls' = Append(calls, Call("docker", config))
             /\ commands' = commands \o Ran("docker", y.cmds)
             /\ IF after.raised
                THEN FinishProcess(after)
                ELSE FinishProcess(ProcessSuccess(config, build_outcome, y.out))
    /\ UNCHANGED <<entry, repo, env, deploy, global_config, framework_defaults, config,
                   detection, validate_in, validate_out, raised_in, analysis_result,
                   build_outcome, deploy_outcome>>
    /\ UNCHANGED <<build_strategy, direct>>

\* full_pipeline, lines 178-189: the Deploy stage and the return
DeployStep ==
    /\ pc = "deploy"
    /\ \E io \in DeployIO :
          LET y == deploy_run(config, io)
          IN /\ deploy_outcome' = y.out
             /\ calls' = Append(calls, Call("deploy", config))
             /\ commands' = commands \o Ran("deploy", y.cmds)
             /\ escaped' = y.out.raised
             /\ returned' = IF y.out.raised THEN y.out
                            ELSE PipelineSuccess(analysis_result, process_result,
                                                 y.out.val)
    /\ pc' = "done"
    /\ UNCHANGED <<entry, repo, env, deploy, global_config, framework_defaults, config,
                   detection, validate_in, validate_out, raised_in, analysis_result,
                   build_outcome, docker_outcome, process_result>>
    /\ UNCHANGED <<build_strategy, direct, cwd>>

Next ==
    \/ DetectFramework
    \/ AnalyzeDetect
    \/ AnalyzeStrategy
    \/ AnalyzeMerge
    \/ AnalyzeValidate
    \/ ProcessStart
    \/ BuildStep
    \/ DockerStep
    \/ DeployStep

Spec == Init /\ [][Next]_vars

\* The positions of a run of an entry point
Positions == {"start", "strategy", "merge", "validate", "process", "build", "docker",
              "deploy", "done"}

\* A run that has not ended moves to another position
Advance == pc # "done" /\ pc' \in Positions

\* The steps of a run follow one another in one thread, and every command
\* a stage runs ends with its exit code or with run_command's timeout
\* (helpers.py, lines 15-21): a run never stays for ever at a position
\* before its end.  Every position before the end has a step of Next.
FairSpec == Spec /\ WF_pc(Advance)

\* ------------------------------------------- the detector, directly ---
(* detect_framework is called on a repository, then called again, and      *)
(* detect_build_strategy is called with the framework it returned.         *)

DetectFiles == {"angular.json", "src/main.ts", "src/App.js", "next.config.js",
                "package-lock.json"}

DetectPkgs ==
    { NoPkg, BadPkg, ListPkg,
      \* the document {}
      Pkg(<<>>, FALSE, {}, {}, {}),
      Pkg(<<"a">>, TRUE, {"@angular/core"}, {}, {"build:prod"}),
      Pkg(<<"a">>, TRUE, {"@angular/core", "@angular/cli", "@angular/common"},
          {"@angular/cli", "@angular-devkit/build-angular"}, {"build:prod", "build"}),
      Pkg(<<"a">>, TRUE, {"react", "react-dom"}, {"react-scripts"}, {"build"}),
      Pkg(<<"a">>, TRUE, {"next"}, {}, {}),
      Pkg(<<"a">>, TRUE, {"next", "react"}, {"next"}, {"build"}),
      Pkg(<<"a">>, TRUE, {"vue"}, {}, {"test"}),
      Pkg(<<"a">>, TRUE, {}, {}, {"build"}) }

DetectRepos ==
    {MissingRepo}
    \cup {Repo(files, pkg, <<"a">>) : files \in SUBSET DetectFiles, pkg \in DetectPkgs}

InitDetect ==
    /\ entry = "detect_framework"
    /\ repo \in DetectRepos
    /\ env = EmptyMap
    /\ deploy = FALSE
    /\ global_config = D(EmptyMap)
    /\ framework_defaults = EmptyMap
    /\ pc = "start"
    /\ config = None
    /\ detection = NotCalled
    /\ validate_in = None
    /\ validate_out = NotCalled
    /\ raised_in = ""
    /\ analysis_result = NotCalled
    /\ build_outcome = NotCalled
    /\ docker_outcome = NotCalled
    /\ deploy_outcome = NotCalled
    /\ process_result = NotCalled
    /\ returned = NotCalled
    /\ escaped = FALSE
    /\ calls = <<>>
    /\ commands = <<>>
    /\ build_strategy = NotCalled
    /\ again = NotCalled
    /\ given = <<>>
    /\ layers = <<>>
    /\ deep_merged = NotCalled
    /\ folded = NotCalled
    /\ remerged = NotCalled
    /\ cwd = "original_dir"
    /\ outdirs = EmptyMap
    /\ verified = NotCalled
    /\ output_directory = NotCalled

\* detect_framework, called a second time on the same repository
DetectAgain ==
    /\ entry = "detect_framework"
    /\ pc = "done"
    /\ again = NotCalled
    /\ again' = detect_framework(repo)
    /\ UNCHANGED <<entry, repo, env, deploy, global_config, framework_defaults, pc,
                   config, detection, validate_in, validate_out, raised_in,
                   analysis_result, build_outcome, docker_outcome, deploy_outcome,
                   process_result, returned, escaped, calls, commands, build_strategy,
                   given, layers, deep_merged, folded, remerged, cwd, outdirs,
                   verified, output_directory>>

\* detect_build_strategy(repo_path, framework) with the framework detected
DetectBuildStrategy ==
    /\ entry = "detect_framework"
    /\ pc = "done"
    /\ ~detection.raised
    /\ build_strategy = NotCalled
    /\ build_strategy' = detect_build_strategy(repo, detection.val.framework)
    /\ UNCHANGED <<entry, repo, env, deploy, global_config, framework_defaults, pc,
                   config, detection, validate_in, validate_out, raised_in,
                   analysis_result, build_outcome, docker_outcome, deploy_outcome,
                   process_result, returned, escaped, calls, commands, direct,
                   cwd>>

NextDetect ==
    \/ DetectFramework
    \/ DetectAgain
    \/ DetectBuildStrategy

SpecDetect == InitDetect /\ [][NextDetect]_vars

\* --------------------------------------------- the merger, directly ---
(* _deep_merge is called on two layers and the layers are folded as        *)
(* merge_config folds them; or merge_config is called on an app_config     *)
(* with the framework a detection returned.                                *)

LayerValues ==
    { S("1"), S("2"),
      D([a |-> S("1")]),
      D([b |-> S("2")]),
      D([a |-> D([c |-> S("3")])]),
      D([a |-> S("4"), b |-> D([c |-> S("5")])]),
      D([b |-> D([c |-> S("6")])]) }

Layers ==
    {D(EmptyMap), D([k |-> S("1"), j |-> D([a |-> S("2")])])}
    \cup {D([k |-> v]) : v \in LayerValues}

MergeGlobals ==
    { D(EmptyMap),
      D([source |-> D([branch |-> S("develop"), repo_url |-> S("git://g"),
                       commit_sha |-> C(<<"a", "b">>)])]),
      D([source |-> D([branch |-> S("feature/x")])]),
      D([source |-> D([branch |-> S("master")])]),
      D([deployment |-> D([environment |-> S("qa")])]),
      D([app |-> D([name |-> C(<<"A", "_", "b">>)])]),
      D([docker |-> D([organization |-> S("acme")])]),
      D([docker |-> D([repository |-> S("corp"), tag |-> S("v1"),
                       full_image |-> S("corp/old:v1"),
                       latest_image |-> S("corp/old:latest")])]) }

MergeDefaults ==
    { EmptyMap,
      [angular |-> D([deployment |-> D([replicas |-> O(3)]),
                      source |-> D([commit_sha |-> C(<<"c">>)])])],
      [react |-> D([deployment |-> D([environment |-> S("qa")])])] }

AppConfigs ==
    { D(EmptyMap),
      D([app |-> D([name |-> C(<<"a", "-", "b">>), framework |-> S("angular")])]),
      D([app |-> D([name |-> C(<<"A", "_", "b">>)])]),
      D([source |-> D([branch |-> S("main")])]),
      D([deployment |-> D([environment |-> S("staging")])]),
      D([docker |-> D([image |-> S("web"), tag |-> S("stale")])]) }

MergeEnvs ==
    { EmptyMap,
      [BUILD_BUILDNUMBER |-> S("42"),
       BUILD_SOURCEBRANCHNAME |-> S("develop"),
       BUILD_SOURCEVERSION |-> C(<<"a", "b", "c", "d", "e", "f", "0", "1", "2">>),
       BUILD_REPOSITORY_NAME |-> C(<<"A", "_", "b">>)],
      [BUILD_SOURCEBRANCHNAME |-> S("main")],
      [BUILD_REPOSITORY_URI |-> S("git://e"),
       BUILD_REPOSITORY_NAME |-> C(<<"A", "_", "b">>)],
      [DOCKER_REPOSITORY |-> S("registry"), BUILD_BUILDNUMBER |-> S("7")] }

\* The build number of a later pipeline run
NextBuildNumber == S("43")

\* os.environ with BUILD_BUILDNUMBER set to n
WithBuildNumber(e, n) ==
    [k \in (DOMAIN e) \cup {"BUILD_BUILDNUMBER"} |->
        IF k = "BUILD_BUILDNUMBER" THEN n ELSE e[k]]

\* The result of a detection that found the framework fw
Detected(fw) == Return([framework |-> fw, confidence |-> 10 * max_possible,
                        details |-> EmptyMap])

InitMerge ==
    /\ \/ /\ entry = "_deep_merge"
          /\ given \in [1..4 -> Layers]
          /\ global_config = D(EmptyMap)
          /\ framework_defaults = EmptyMap
          /\ config = None
          /\ env = EmptyMap
          /\ detection = NotCalled
       \/ /\ entry = "merge_config"
          /\ global_config \in MergeGlobals
          /\ framework_defaults \in MergeDefaults
          /\ config \in AppConfigs
          /\ env \in MergeEnvs
          /\ detection = Detected("angular")
          /\ given = <<global_config, DefaultsFor(framework_defaults, "angular"), config>>
    /\ layers = given
    /\ repo = MissingRepo
    /\ deploy = FALSE
    /\ pc = "start"
    /\ validate_in = None
    /\ validate_out = NotCalled
    /\ raised_in = ""
    /\ analysis_result = NotCalled
    /\ build_outcome = NotCalled
    /\ docker_outcome = NotCalled
    /\ deploy_outcome = NotCalled
    /\ process_result = NotCalled
    /\ returned = NotCalled
    /\ escaped = FALSE
    /\ calls = <<>>
    /\ commands = <<>>
    /\ build_strategy = NotCalled
    /\ again = NotCalled
    /\ deep_merged = NotCalled
    /\ folded = NotCalled
    /\ remerged = NotCalled
    /\ cwd = "original_dir"
    /\ outdirs = EmptyMap
    /\ verified = NotCalled
    /\ output_directory = NotCalled

\* _deep_merge(base, override) on the two lowest layers; it assigns into
\* its own copy only
DeepMerge ==
    /\ entry = "_deep_merge"
    /\ pc = "start"
    /\ deep_merged' = Return(_deep_merge(layers[1], layers[2]))
    /\ pc' = "fold"
    /\ UNCHANGED <<entry, repo, env, deploy, global_config, framework_defaults, config,
                   detection, validate_in, validate_out, raised_in, analysis_result,
                   build_outcome, docker_outcome, deploy_outcome, process_result,
                   returned, escaped, calls, commands, build_strategy, again, given,
                   layers, folded, remerged, cwd, outdirs, verified, output_directory>>

\* The fold of merge_config (lines 56-63) over the layers
FoldLayers ==
    /\ entry = "_deep_merge"
    /\ pc = "fold"
    /\ folded' = Return(MergeLayers(layers))
    /\ pc' = "done"
    /\ UNCHANGED <<entry, repo, env, deploy, global_config, framework_defaults, config,
                   detection, validate_in, validate_out, raised_in, analysis_result,
                   build_outcome, docker_outcome, deploy_outcome, process_result,
                   returned, escaped, calls, commands, build_strategy, again, given,
                   layers, deep_merged, remerged, cwd, outdirs, verified,
                   output_directory>>

\* merge_config(app_config, detected_framework), called directly
MergeConfig ==
    /\ entry = "merge_config"
    /\ pc = "start"
    /\ LET result == merge_config(global_config, framework_defaults, config, env,
                                  detection.val.framework)
       IN /\ config' = result.val.config
          /\ global_config' = result.val.global_config
          /\ framework_defaults' = result.val.framework_defaults
          /\ returned' = IF result.raised THEN Raise(result.exc)
                         ELSE Return(result.val.config)
          /\ escaped' = result.raised
    /\ pc' = "done"
    /\ UNCHANGED <<entry, repo, env, deploy, detection, validate_in, validate_out,
                   raised_in, analysis_result, build_outcome, docker_outcome,
                   deploy_outcome, process_result, calls, commands, build_strategy,
                   again, given, layers, deep_merged, folded, remerged, cwd, outdirs,
                   verified, output_directory>>

\* merge_config called a second time on the same SmartConfigMerger, with an
\* app_config equal to the first one and the same detected framework, under
\* the same environment or under a new build number.  The merger's layers
\* are what the first call left.
Remerge ==
    /\ entry = "merge_config"
    /\ pc = "done"
    /\ ~escaped
    /\ \E e \in {env, WithBuildNumber(env, NextBuildNumber)} :
          LET result == merge_config(global_config, framework_defaults, given[3], e,
                                     detection.val.framework)
          IN /\ remerged' = [env |-> e, raised |-> result.raised,
                             val |-> result.val.config]
             /\ global_config' = result.val.global_config
             /\ framework_defaults' = result.val.framework_defaults
    /\ pc' = "remerged"
    /\ UNCHANGED <<entry, repo, env, deploy, config, detection, validate_in,
                   validate_out, raised_in, analysis_result, build_outcome,
                   docker_outcome, deploy_outcome, process_result, returned, escaped,
                   calls, commands, build_strategy, again, given, layers, deep_merged,
                   folded, cwd, outdirs, verified, output_directory>>

NextMerge ==
    \/ DeepMerge
    \/ FoldLayers
    \/ MergeConfig
    \/ Remerge

SpecMerge == InitMerge /\ [][NextMerge]_vars

\* ------------------------------------- the output directory, directly ---
(* After a build left its output directories in the repository,            *)
(* detect_output_directory and the Build stage's _verify_build_artifacts   *)
(* are each asked where the output is.                                     *)

OutputFrameworks == {"angular", "react", "vue", "nextjs", "generic"}

OutputStates ==
    OutDirs
    \cup { "dist" :> "other",
           ("build" :> "other") @@ ("dist" :> "web"),
           ("dist" :> "web") @@ ("build" :> "web"),
           ("dist/<app_name>" :> "empty") @@ ("dist" :> "web"),
           "public" :> "web" }

OutputStrategies ==
    { D([command |-> S("npm run build")]),
      D([command |-> S("npm run build"), output_dir |-> S("public")]) }

InitOutput ==
    /\ entry = "detect_output_directory"
    /\ detection \in {Detected(fw) : fw \in OutputFrameworks}
    /\ build_strategy \in {Return(b) : b \in OutputStrategies}
    /\ outdirs \in OutputStates
    /\ verified = NotCalled
    /\ output_directory = NotCalled
    /\ repo = EmptyRepo
    /\ env = EmptyMap
    /\ deploy = FALSE
    /\ global_config = D(EmptyMap)
    /\ framework_defaults = EmptyMap
    /\ pc = "start"
    /\ config = None
    /\ validate_in = None
    /\ validate_out = NotCalled
    /\ raised_in = ""
    /\ analysis_result = NotCalled
    /\ build_outcome = NotCalled
    /\ docker_outcome = NotCalled
    /\ deploy_outcome = NotCalled
    /\ process_result = NotCalled
    /\ returned = NotCalled
    /\ escaped = FALSE
    /\ calls = <<>>
    /\ commands = <<>>
    /\ again = NotCalled
    /\ given = <<>>
    /\ layers = <<>>
    /\ deep_merged = NotCalled
    /\ folded = NotCalled
    /\ remerged = NotCalled
    /\ cwd = "original_dir"

\* _verify_build_artifacts(build_strategy, app_name, framework), in the
\* repository directory
VerifyBuildArtifacts ==
    /\ entry = "detect_output_directory"
    /\ verified = NotCalled
    /\ LET artifacts == _verify_build_artifacts(build_strategy.val,
                                                detection.val.framework, outdirs)
       IN verified' = IF artifacts.raised THEN artifacts
                      ELSE Return(D([output_dir |-> S(artifacts.val)]))
    /\ UNCHANGED <<entry, repo, env, deploy, global_config, framework_defaults, pc,
                   config, detection, validate_in, validate_out, raised_in,
                   analysis_result, build_outcome, docker_outcome, deploy_outcome,
                   process_result, returned, escaped, calls, commands, build_strategy,
                   again, given, layers, deep_merged, folded, remerged, cwd, outdirs,
                   output_directory>>

\* detect_output_directory(repo_path, framework, app_name)
DetectOutputDirectory ==
    /\ entry = "detect_output_directory"
    /\ output_directory = NotCalled
    /\ output_directory' = Return(S(detect_output_directory(detection.val.framework,
                                                            outdirs)))
    /\ UNCHANGED <<entry, repo, env, deploy, global_config, framework_defaults, pc,
                   config, detection, validate_in, validate_out, raised_in,
                   analysis_result, build_outcome, docker_outcome, deploy_outcome,
                   process_result, returned, escaped, calls, commands, build_strategy,
                   again, given, layers, deep_merged, folded, remerged, cwd, outdirs,
                   verified>>

NextOutput ==
    \/ VerifyBuildArtifacts
    \/ DetectOutputDirectory

SpecOutput == InitOutput /\ [][NextOutput]_vars

\* ------------------------------------------------------------ claims ---

\* The outcome of a stage in this run
Outcome(stage) ==
    IF stage = "build" THEN build_outcome
    ELSE IF stage = "docker" THEN docker_outcome
    ELSE deploy_outcome

Invoked(stage) == \E i \in 1..Len(calls) : calls[i].stage = stage

\* A result that was returned with success = False
ReturnedFailure(out) ==
    /\ out # NotCalled
    /\ ~out.raised
    /\ IsDict(out.val)
    /\ Get(out.val, "success", None) = B(FALSE)

\* C1: in every run of full_pipeline and of process_repository, no stage is
\* invoked with a config whose validation.valid is false.
C1_NoStageOnInvalidConfig ==
    \A i \in 1..Len(calls) : calls[i].validity # "invalid"

\* C2: whenever the Build stage reports failure (it returns success=false
\* or raises), the Container stage is not invoked in that run and
\* process_repository returns a result with success=false.
C2_BuildFailureStopsProcess ==
    (build_outcome # NotCalled /\ ~Succeeded(build_outcome))
        => /\ ~Invoked("docker")
           /\ docker_outcome = NotCalled
           /\ ReturnedFailure(process_result)

\* The Build stage raised and process_repository has returned
C2_BuildFailed ==
    /\ build_outcome.raised
    /\ build_outcome.exc = "Build failed"
    /\ process_result # NotCalled
    /\ pc = "done"

\* C3: full_pipeline returns the failure result of analyze_only as it is
\* and invokes no stage when analyze_only fails, and returns the failure
\* result of process_repository as it is and does not invoke Deploy when
\* process_repository fails.
C3_ShortCircuit ==
    (entry = "full_pipeline" /\ pc = "done")
        => /\ ReturnedFailure(analysis_result)
                => /\ returned = analysis_result
                   /\ calls = <<>>
                   /\ process_result = NotCalled
           /\ ReturnedFailure(process_result)
                => /\ returned = process_result
                   /\ ~Invoked("deploy")
                   /\ deploy_outcome = NotCalled

\* full_pipeline returned after the Container stage made process_repository
\* fail
C3_ProcessFailed ==
    /\ entry = "full_pipeline"
    /\ pc = "done"
    /\ Invoked("docker")
    /\ ReturnedFailure(process_result)

\* C4: when full_pipeline is called with deploy=True and the Deploy stage
\* returns success=false, the result of full_pipeline has success=false.
C4_DeployFailureFailsPipeline ==
    (entry = "full_pipeline" /\ pc = "done" /\ deploy
     /\ ReturnedFailure(deploy_outcome))
        => ReturnedFailure(returned)

\* C5: analyze_only, process_repository and full_pipeline let no exception
\* reach the caller, and analyze_only returns {success: false, error,
\* duration} whenever detection, merging or validation raises.
C5_ErrorBoundary ==
    /\ entry \in {"analyze_only", "process_repository", "full_pipeline"}
            => ~escaped /\ ~returned.raised
    /\ raised_in # ""
            => /\ ReturnedFailure(analysis_result)
               /\ DOMAIN analysis_result.val.d = {"success", "error", "duration"}
    /\ (process_result # NotCalled /\ (build_outcome.raised \/ docker_outcome.raised))
            => ReturnedFailure(process_result)

\* validate_config raised inside analyze_only, which returned
C5_ValidationRaised ==
    /\ entry = "analyze_only"
    /\ pc = "done"
    /\ raised_in = "validate_config"
    /\ validate_out.raised
    /\ returned = analysis_result

\* C6: validate_config never raises: for every merged config it returns the
\* config annotated with a validation section {errors, warnings, valid}.
C6_ValidateNeverRaises ==
    validate_out # NotCalled
        => /\ ~validate_out.raised
           /\ Has(validate_out.val, "validation")
           /\ DOMAIN validate_out.val.d["validation"].d = {"errors", "warnings", "valid"}

\* The resources of a config hold limits and requests, and the request of
\* `key` parses to more than its limit
RequestExceedsLimit(cfg, key, parse(_)) ==
    /\ IsDict(cfg)
    /\ HasLimitsAndRequests(cfg)
    /\ LET limits == cfg.d["deployment"].d["resources"].d["limits"]
           requests == cfg.d["deployment"].d["resources"].d["requests"]
       IN /\ Has(limits, key) /\ Has(requests, key)
          /\ ~parse(requests.d[key].c).raised
          /\ ~parse(limits.d[key].c).raised
          /\ parse(requests.d[key].c).val > parse(limits.d[key].c).val

Warned(out, msg) ==
    /\ ~out.raised
    /\ Has(out.val, "validation")
    /\ \E i \in 1..Len(out.val.d["validation"].d["warnings"].l) :
           out.val.d["validation"].d["warnings"].l[i] = msg

\* C7: for a config whose CPU (millicores) or memory (bytes) request exceeds
\* its limit, validate_config records the warning and validation.valid is
\* true when there are no errors.
C7_RequestsOverLimitsWarn ==
    validate_out # NotCalled
        => /\ RequestExceedsLimit(validate_in, "cpu", _parse_cpu)
                => Warned(validate_out, "CPU request exceeds limit")
           /\ RequestExceedsLimit(validate_in, "memory", _parse_memory)
                => Warned(validate_out, "Memory request exceeds limit")
           /\ (\/ RequestExceedsLimit(validate_in, "cpu", _parse_cpu)
               \/ RequestExceedsLimit(validate_in, "memory", _parse_memory))
                => /\ ~validate_out.raised
                   /\ validate_out.val.d["validation"].d["valid"]
                        = B(ValidationErrors(validate_in) = <<>>)

\* C8: a command of a stage that fails (non-zero exit or timeout) makes the
\* stage report failure: the stage does not return success=true.
C8_FailedCommandFailsStage ==
    \A i \in 1..Len(commands) :
        ~commands[i].success => ~Succeeded(Outcome(commands[i].stage))

\* C9: the Build, Container and Deploy stage functions never raise past
\* their own boundary; a failing sub-step gives a returned {success: false}.
C9_StagesNeverRaise ==
    \A stage \in {"build", "docker", "deploy"} :
        Outcome(stage) # NotCalled
            => ~Outcome(stage).raised /\ IsDict(Outcome(stage).val)

AngularScenario(r) ==
    /\ RepoExists(r)
    /\ r.files = {"angular.json", "src/main.ts"}
    /\ r.pkg.kind = "dict"
    /\ r.pkg.deps = {"@angular/core"}
    /\ r.pkg.devDeps = {}
    /\ r.pkg.scripts = {"build:prod"}

\* C11: for a repository with angular.json, src/main.ts, the dependency
\* @angular/core and the script build:prod, detect_framework returns
\* 'angular' with a confidence above 0.3 (150/500) and detect_build_strategy
\* returns the command 'npm run build:prod'.
C11_AngularScenario ==
    (AngularScenario(repo) /\ detection # NotCalled)
        => /\ ~detection.raised
           /\ detection.val.framework = "angular"
           /\ detection.val.confidence > 150
           /\ build_strategy # NotCalled
                => /\ ~build_strategy.raised
                   /\ build_strategy.val.d["command"] = S("npm run build:prod")

\* The same repository without its package.json
WithoutManifest(r) == [r EXCEPT !.pkg = NoPkg]

\* C12: with a package.json that does not parse, detect_framework and
\* detect_build_strategy return what they return for the same repository
\* without package.json.
C12_UnparseableAsAbsent ==
    (RepoExists(repo) /\ repo.pkg.kind = "bad")
        => /\ detection # NotCalled
                => detection = detect_framework(WithoutManifest(repo))
           /\ build_strategy # NotCalled
                => build_strategy.val
                    = detect_build_strategy(WithoutManifest(repo), "generic").val

Range(q) == {q[i] : i \in 1..Len(q)}

\* No marker file and no config file of any profile is in the repository
NoMarker(r) ==
    \A fw \in Range(ProfileOrder) :
        \A f \in Range(detection_patterns[fw].files)
                 \cup Range(detection_patterns[fw].config_files) :
            ~FileExists(r, f)

\* C13: for an existing repository with no manifest and no marker or config
\* file of any profile, detect_framework returns ('generic', 0.1, {}) and
\* detect_build_strategy returns a strategy whose commands only echo.
C13_NoManifest ==
    (RepoExists(repo) /\ repo.pkg.kind = "absent" /\ NoMarker(repo))
        => /\ detection # NotCalled
                => detection = Return([framework |-> "generic", confidence |-> 50,
                                       details |-> EmptyMap])
           /\ build_strategy # NotCalled
                => /\ ~build_strategy.raised
                   /\ build_strategy.val.d["command"] = S("echo No package.json found")
                   /\ build_strategy.val.d["install_command"] = S("echo No install needed")
                   /\ build_strategy.val.d["type"] = S("generic")

\* An empty directory, with both calls made
C13_EmptyDirectory ==
    /\ RepoExists(repo)
    /\ repo.pkg.kind = "absent"
    /\ repo.files = {}
    /\ detection # NotCalled
    /\ build_strategy # NotCalled

\* What the manifest lists under a key: nothing when there is no manifest
Listed(r, key) ==
    IF r.pkg.kind # "dict" THEN {}
    ELSE IF key = "dependencies" THEN r.pkg.deps
    ELSE IF key = "devDependencies" THEN r.pkg.devDeps
    ELSE r.pkg.scripts

\* The score of a profile as the rule states it, times 10:
\* weight x (3 per marker file + 5 per dependency + 3 per dev-dependency
\*           + 2 per config file + 1 per build script)
RuleScore10(r, fw) ==
    LET p == detection_patterns[fw]
    IN p.weight10
       * ( 3 * Cardinality({f \in Range(p.files) : FileExists(r, f)})
         + 5 * Cardinality(Range(p.package_dependencies) \cap Listed(r, "dependencies"))
         + 3 * Cardinality(Range(p.package_dev_dependencies)
                           \cap Listed(r, "devDependencies"))
         + 2 * Cardinality({f \in Range(p.config_files) : FileExists(r, f)})
         + 1 * Cardinality(Range(p.build_commands) \cap Listed(r, "scripts")) )

BestRuleScore10(r) ==
    CHOOSE s \in {RuleScore10(r, fw) : fw \in Range(ProfileOrder)} :
        \A fw \in Range(ProfileOrder) : RuleScore10(r, fw) <= s

\* C14: the framework detect_framework selects has the greatest weighted
\* score among the profiles scoring above 0, the score being weight x
\* (3 per marker file + 5 per dependency + 3 per dev-dependency + 2 per
\* config file + 1 per build script), and the confidence is
\* min(score / 50, 1.0), within [0, 1].
C14_ScoreAndConfidence ==
    (detection # NotCalled /\ ~detection.raised /\ RepoExists(repo))
        => /\ detection.val.confidence >= 0
           /\ detection.val.confidence <= 500
           /\ IF BestRuleScore10(repo) > 0
              THEN /\ detection.val.framework \in Range(ProfileOrder)
                   /\ RuleScore10(repo, detection.val.framework) = BestRuleScore10(repo)
                   /\ detection.val.confidence = Min(BestRuleScore10(repo), 500)
              ELSE detection.val.framework = "generic"

\* A react repository was scored: the weight 0.9 applies
C14_WeightedProfileDetected ==
    /\ detection # NotCalled
    /\ ~detection.raised
    /\ detection.val.framework = "react"
    /\ "src/App.js" \in repo.files
    /\ detection.val.confidence = 9 * 19

\* The profiles that reach the greatest weighted score, when it is above 0
Leaders(r) ==
    {fw \in Range(ProfileOrder) :
        RuleScore10(r, fw) > 0 /\ RuleScore10(r, fw) = BestRuleScore10(r)}

\* C15: when several profiles reach the same greatest score,
\* detect_framework selects the first of them in the order angular, react,
\* vue, nextjs, and a second call on the same repository returns the same
\* (framework, confidence).
C15_DeterministicTieBreak ==
    (detection # NotCalled /\ ~detection.raised /\ RepoExists(repo))
        => /\ Leaders(repo) # {}
                => \E i \in 1..Len(ProfileOrder) :
                       /\ ProfileOrder[i] = detection.val.framework
                       /\ ProfileOrder[i] \in Leaders(repo)
                       /\ \A j \in 1..(i-1) : ProfileOrder[j] \notin Leaders(repo)
           /\ again # NotCalled
                => /\ again.val.framework = detection.val.framework
                   /\ again.val.confidence = detection.val.confidence

\* Two profiles tie for the greatest score, and detect_framework was called twice
C15_Tie ==
    /\ RepoExists(repo)
    /\ detection # NotCalled
    /\ ~detection.raised
    /\ Cardinality(Leaders(repo)) >= 2
    /\ again # NotCalled

RECURSIVE MergeLaw(_, _, _)
\* r is the layered merge of a (lower) and b (higher)
MergeLaw(a, b, r) ==
    /\ IsDict(r)
    /\ DOMAIN r.d = (DOMAIN a.d) \cup (DOMAIN b.d)
    /\ \A k \in DOMAIN r.d :
         IF k \notin DOMAIN b.d THEN r.d[k] = a.d[k]
         ELSE IF k \notin DOMAIN a.d THEN r.d[k] = b.d[k]
         ELSE IF IsDict(a.d[k]) /\ IsDict(b.d[k]) THEN MergeLaw(a.d[k], b.d[k], r.d[k])
         ELSE r.d[k] = b.d[k]

\* C16: _deep_merge(A, B) equals A on the keys absent from B, B on the keys
\* only in B, the recursive merge on the keys that are maps in both and B's
\* value on the other keys, at every level; A and B are as they were.
C16_DeepMergeLaw ==
    deep_merged # NotCalled
        => /\ ~deep_merged.raised
           /\ MergeLaw(given[1], given[2], deep_merged.val)
           /\ layers = given

\* Both layers hold a map under k, with a key in common and a key each
C16_NestedMerge ==
    /\ deep_merged # NotCalled
    /\ given[1] = D([k |-> D([a |-> S("4"), b |-> D([c |-> S("5")])])])
    /\ given[2] = D([k |-> D([a |-> D([c |-> S("3")])])])

RECURSIVE RightFold(_)
\* L1 merge (L2 merge (L3 merge ...))
RightFold(ls) ==
    IF ls = <<>> THEN D(EmptyMap)
    ELSE _deep_merge(Head(ls), RightFold(Tail(ls)))

RECURSIVE Precedence(_)
\* The flattened precedence map of a sequence of maps, lowest first: a key
\* holds the value of the highest map that has it, and when that value is a
\* map, the precedence map of the values of the maps below that hold a map
\* under the key without a non-map between them.
Precedence(ls) ==
    D([k \in UNION {DOMAIN ls[i].d : i \in 1..Len(ls)} |->
         LET holders == SelectSeq(ls, LAMBDA l : k \in DOMAIN l.d)
             vals == [i \in 1..Len(holders) |-> holders[i].d[k]]
             n == Len(vals)
         IN IF ~IsDict(vals[n]) THEN vals[n]
            ELSE LET start == CHOOSE i \in 1..n :
                                 /\ \A h \in i..n : IsDict(vals[h])
                                 /\ (i = 1 \/ ~IsDict(vals[i - 1]))
                 IN Precedence(SubSeq(vals, start, n))])

RECURSIVE SameShapes(_)
\* No key is a map in one of the maps and something else in another, at any level
SameShapes(ls) ==
    \A k \in UNION {DOMAIN ls[i].d : i \in 1..Len(ls)} :
        LET holders == SelectSeq(ls, LAMBDA l : k \in DOMAIN l.d)
            vals == [i \in 1..Len(holders) |-> holders[i].d[k]]
        IN \/ \A i \in 1..Len(vals) : ~IsDict(vals[i])
           \/ /\ \A i \in 1..Len(vals) : IsDict(vals[i])
              /\ SameShapes(vals)

\* C17 as stated: for all layers, maps over scalars included, folding the
\* layers lowest first gives L1 merge (L2 merge (L3 merge L4)).
C17_FoldIsRightFold ==
    folded # NotCalled => folded.val = RightFold(given)

\* C17: folding the layers lowest first gives the flattened precedence map,
\* in which nothing of a lower layer reappears beneath a key that a higher
\* layer overrode; it is L1 merge (L2 merge (L3 merge L4)) when no key is a
\* map in one layer and a scalar in another.
C17_FoldIsPrecedence ==
    folded # NotCalled
        => /\ folded.val = Precedence(given)
           /\ SameShapes(given) => folded.val = RightFold(given)

\* Three layers hold a map under k, and no key changes shape
C17_ThreeMaps ==
    /\ folded # NotCalled
    /\ SameShapes(given)
    /\ given[1] = D([k |-> D([a |-> S("4"), b |-> D([c |-> S("5")])])])
    /\ given[2] = D([k |-> D([b |-> D([c |-> S("6")])])])
    /\ given[4] = D([k |-> D([a |-> S("1")])])

\* merge_config has returned the config
MergeReturned == entry = "merge_config" /\ pc = "done" /\ ~returned.raised

\* C18: after merge_config, deployment.environment is 'production' when
\* source.branch is main or master, 'staging' when it is develop and
\* 'development' otherwise, whatever the layers and the environment.
C18_EnvironmentFromBranch ==
    MergeReturned
        => config.d["deployment"].d["environment"]
             = (IF config.d["source"].d["branch"] \in {S("main"), S("master")}
                THEN S("production")
                ELSE IF config.d["source"].d["branch"] = S("develop")
                THEN S("staging")
                ELSE S("development"))

\* C19: after merge_config, app.name is lower-case and has no '_',
\* whatever layer or variable the name came from.
C19_AppNameNormalized ==
    MergeReturned
        => \A i \in 1..Len(config.d["app"].d["name"].c) :
               config.d["app"].d["name"].c[i] \notin {"A", "B", "_"}

\* The value the merged layers hold at source.<key>, or None
PreExisting(key) ==
    LET m == MergeLayers(given)
    IN IF Has(m, "source") /\ IsDict(m.d["source"]) /\ Has(m.d["source"], key)
       THEN m.d["source"].d[key] ELSE None

\* source.<key> is the variable when it is set, else the value the layers had
FromEnvOrKept(key, variable) ==
    IF variable \in DOMAIN env THEN config.d["source"].d[key] = env[variable]
    ELSE ~IsNone(PreExisting(key)) => config.d["source"].d[key] = PreExisting(key)

\* C20: after merge_config, source.repo_url, source.branch and
\* source.commit_sha each equal their CI variable when it is set and keep
\* the value of the merged layers otherwise.
C20_SourceFromEnvOrKept ==
    MergeReturned
        => /\ FromEnvOrKept("repo_url", "BUILD_REPOSITORY_URI")
           /\ FromEnvOrKept("branch", "BUILD_SOURCEBRANCHNAME")
           /\ FromEnvOrKept("commit_sha", "BUILD_SOURCEVERSION")

\* The docker section of the config merge_config returned
Docker == config.d["docker"]

\* C21: after merge_config, docker.repository is DOCKER_REPOSITORY whenever
\* that variable is set; without it, it is the global config's
\* docker.organization, and 'myorg' when there is none.
C21_RepositoryFromEnvFirst ==
    MergeReturned
        => Docker.d["repository"]
             = (IF "DOCKER_REPOSITORY" \in DOMAIN env THEN env["DOCKER_REPOSITORY"]
                ELSE IF Has(given[1], "docker") /\ Has(given[1].d["docker"], "organization")
                THEN given[1].d["docker"].d["organization"]
                ELSE S("myorg"))

\* The docker.<key> the merged layers hold, or None
LayerDocker(key) ==
    LET m == MergeLayers(given)
    IN IF Has(m, "docker") /\ IsDict(m.d["docker"]) /\ Has(m.d["docker"], key)
       THEN m.d["docker"].d[key] ELSE None

\* 'v' and the build number, 'vlocal' without one
TagOf(e) ==
    "v" \o (IF "BUILD_BUILDNUMBER" \in DOMAIN e THEN e["BUILD_BUILDNUMBER"].s ELSE "local")

\* C22: after merge_config, docker.tag is 'v' and the build number ('vlocal'
\* without BUILD_BUILDNUMBER), docker.full_image is
\* '<repository>/<image>:<tag>' and docker.latest_image is
\* '<repository>/<image>:latest' of the resolved repository and image,
\* whatever tag, full_image or latest_image the layers supplied.
C22_TagAndImagesRecomputed ==
    MergeReturned
        => /\ Docker.d["tag"] = S(TagOf(env))
           /\ Docker.d["full_image"]
                = S(Str(Docker.d["repository"]) \o "/" \o Str(Docker.d["image"])
                    \o ":" \o TagOf(env))
           /\ Docker.d["latest_image"]
                = S(Str(Docker.d["repository"]) \o "/" \o Str(Docker.d["image"])
                    \o ":latest")

\* A merge under a build number, over layers that supply another tag and
\* other image strings
C22_StaleTagReplaced ==
    /\ MergeReturned
    /\ "BUILD_BUILDNUMBER" \in DOMAIN env
    /\ LayerDocker("tag") = S("v1")
    /\ LayerDocker("full_image") = S("corp/old:v1")
    /\ LayerDocker("latest_image") = S("corp/old:latest")
    /\ Docker.d["tag"] # S("v1")

\* The second merge returned
Remerged == entry = "merge_config" /\ pc = "remerged" /\ ~remerged.raised

RECURSIVE Diff(_, _)
\* The key paths at which two values differ
Diff(a, b) ==
    IF a = b THEN {}
    ELSE IF IsDict(a) /\ IsDict(b)
    THEN UNION {IF Has(a, k) /\ Has(b, k)
                THEN {<<k>> \o path : path \in Diff(a.d[k], b.d[k])}
                ELSE {<<k>>} : k \in (DOMAIN a.d) \cup (DOMAIN b.d)}
    ELSE {<<>>}

\* C23: a second merge_config on the same inputs under another
\* BUILD_BUILDNUMBER differs from the first in docker.tag, docker.full_image
\* and docker.latest_image and in no other key; under the same build number
\* it gives the same docker.tag and docker.full_image.
C23_RemergeChangesTagAndImagesOnly ==
    Remerged
        => IF remerged.env = env
           THEN /\ remerged.val.d["docker"].d["tag"] = Docker.d["tag"]
                /\ remerged.val.d["docker"].d["full_image"] = Docker.d["full_image"]
           ELSE Diff(config, remerged.val)
                  = {<<"docker", "tag">>, <<"docker", "full_image">>,
                     <<"docker", "latest_image">>}

\* C26: the merger's global_config and framework_defaults are, after every
\* merge_config, the values loaded at construction, and a second
\* merge_config on an equal app_config under the same environment returns
\* what the first returned.
C26_LayersImmutable ==
    entry = "merge_config" /\ pc \in {"done", "remerged"}
        => /\ global_config = given[1]
           /\ DefaultsFor(framework_defaults, detection.val.framework) = given[2]
           /\ Remerged /\ remerged.env = env => remerged.val = config

\* C24: the Build stage leaves the config it is given as the validation
\* returned it: after smart_build.run the config of the run is the
\* validated config, the CI build_info section included.
C24_BuildLeavesConfigUnchanged ==
    (build_outcome # NotCalled /\ validate_out # NotCalled /\ ~validate_out.raised)
        => config = validate_out.val

\* C28: whenever the Build stage or the Container stage has returned or
\* raised, the working directory is the one the stage was entered in.
C28_WorkingDirectoryRestored ==
    (build_outcome # NotCalled \/ docker_outcome # NotCalled) => cwd = "original_dir"

\* The Build stage returned and the Container stage raised in its try
\* block, after a command failed
C28_ContainerRaisedInRepository ==
    /\ build_outcome # NotCalled /\ ~build_outcome.raised
    /\ docker_outcome.raised
    /\ \E i \in 1..Len(commands) :
          commands[i].stage = "docker" /\ ~commands[i].success
    /\ cwd = "original_dir"

\* The stages invoked so far, in order
Stages == [i \in 1..Len(calls) |-> calls[i].stage]

\* A stage that returned a result with success = True
StageSucceeded(out) == out # NotCalled /\ ~out.raised /\ Succeeded(out)

\* The order of the stages of a run of full_pipeline
PipelineOrder ==
    entry = "full_pipeline"
        => /\ Stages \in {<<>>, <<"build">>, <<"build", "docker">>,
                          <<"build", "docker", "deploy">>}
           /\ Invoked("build") => StageSucceeded(analysis_result)
           /\ Invoked("docker") => StageSucceeded(build_outcome)
           /\ Invoked("deploy") => StageSucceeded(docker_outcome) /\ deploy

\* A run of full_pipeline that ended with a result whose success is True or False
PipelineEnded ==
    /\ pc = "done"
    /\ ~escaped
    /\ ~returned.raised
    /\ IsDict(returned.val)
    /\ Get(returned.val, "success", None) \in {B(TRUE), B(FALSE)}

\* C29: in every run of full_pipeline the analysis, Build, Container and
\* Deploy run in that order, each at most once and only after the one
\* before it returned success, Deploy only when deploy is set; and the run
\* ends with a success result or a failure result.
C29_OrderedAndTerminates ==
    /\ []PipelineOrder
    /\ [](entry = "full_pipeline" /\ pc = "done" => PipelineEnded)
    /\ (entry = "full_pipeline") ~> PipelineEnded

\* A full pipeline that ran its three stages
C29_AllStagesRan ==
    /\ entry = "full_pipeline"
    /\ Stages = <<"build", "docker", "deploy">>
    /\ PipelineEnded

\* C25: the directory _verify_build_artifacts selects is the result of
\* detect_output_directory, for every framework and every state of the
\* output directories.
C25_SameOutputDirectory ==
    (verified # NotCalled /\ output_directory # NotCalled)
        => /\ ~verified.raised
           /\ verified.val.d["output_dir"] = output_directory.val

\* The strategy the claim describes for a manifest with the scripts
\* `scripts`, a framework whose candidate names are `candidates`, and a
\* lock file that is there or not
DescribedStrategy(strategy, framework, candidates, scripts, locked) ==
    LET install == (IF locked THEN "npm ci" ELSE "npm install")
                   \o " --prefer-offline --no-audit --no-fund"
    IN /\ strategy.d["install_command"] = S(install)
       /\ IF \E i \in 1..Len(candidates) : candidates[i] \in scripts
          THEN \E i \in 1..Len(candidates) :
                  /\ candidates[i] \in scripts
                  /\ \A j \in 1..(i - 1) : candidates[j] \notin scripts
                  /\ strategy.d["command"] = S("npm run " \o candidates[i])
                  /\ strategy.d["type"] = S(framework)
          ELSE IF "build" \in scripts
          THEN /\ strategy.d["command"] = S("npm run build")
               /\ strategy.d["type"] = S("generic")
          ELSE /\ strategy.d["command"] = S(install)
               /\ strategy.d["type"] = S("install-only")

\* detect_build_strategy was called on a repository whose package.json is
\* of one of `kinds`, and did as the claim describes
StrategyAsDescribed(kinds) ==
    (build_strategy # NotCalled /\ repo.pkg.kind \in kinds)
        => /\ ~build_strategy.raised
           /\ DescribedStrategy(build_strategy.val, detection.val.framework,
                                detection_patterns[detection.val.framework].build_commands,
                                repo.pkg.scripts,
                                "package-lock.json" \in repo.files)

\* C27, as stated: for every manifest that parses, detect_build_strategy
\* returns 'npm run <the first candidate name of the framework that is a
\* script>' with type = framework, else 'npm run build' with type
\* 'generic' when there is a build script, else the install-only strategy;
\* the install command is 'npm ci' exactly when package-lock.json exists.
C27_StrategyForParseableManifest ==
    entry = "detect_framework" => StrategyAsDescribed({"dict", "list"})

\* C27, amended: the same for every manifest that parses to a JSON object
\* with at least one key.
C27_StrategyForNonEmptyObject ==
    entry = "detect_framework"
        => (repo.pkg.keys # {} => StrategyAsDescribed({"dict"}))

\* An angular manifest with the scripts build:prod and build, and a lock file
C27_FirstCandidateChosen ==
    /\ entry = "detect_framework"
    /\ build_strategy # NotCalled
    /\ detection.val.framework = "angular"
    /\ repo.pkg.scripts = {"build:prod", "build"}
    /\ "package-lock.json" \in repo.files
    /\ build_strategy.val.d["command"] = S("npm run build:prod")

====
